---- MODULE Spec2Model ----
(***************************************************************************)
(* CVERE 16-bit virtual machine toolchain (src/desktop/backend/go/main.go): *)
(* the executor (simulator/vm.go), the two-pass assembler                   *)
(* (simulator/assembler.go), the disassembler (simulator/disassembler.go)   *)
(* and the HTTP handlers that call them (assemble, disassemble, simulate).  *)
(*                                                                          *)
(* Words are naturals below 2^16.  Memory is the 32768-word array of the VM *)
(* held sparsely: a function from the indices whose word is not 0 to that   *)
(* word; every other index reads 0.  Strings are sequences of one-character *)
(* strings, so that the assembler's parsing is computed character by        *)
(* character as the Go code does.                                           *)
(***************************************************************************)
EXTENDS Integers, Sequences, FiniteSets, TLC

VARIABLES
  Registers,   \* VM.Registers  [16]uint16
  PC,          \* VM.PC
  SP,          \* VM.SP
  LR,          \* VM.LR
  SR,          \* VM.SR
  Memory,      \* VM.Memory     [32768]uint16, sparse
  Halted,      \* VM.Halted
  CycleCount,  \* VM.CycleCount
  last,        \* the last call on the VM: its name, its outcome, the word it
               \* fetched and the PC and SR it started from
  nLoads,      \* LoadProgram calls made so far (bounded by MaxLoads)
  nResets,     \* Reset calls made so far (bounded by MaxResets)
  nCalls,      \* Fetch, UpdateFlags and UpdateFlagsWithCarry calls made on their
               \* own so far (bounded, with the loads, by MaxLoads)
  Labels,      \* Assembler.Labels        map[string]uint16
  Instructions,\* Assembler.Instructions  []Instruction
  Address,     \* Assembler.Address
  asmOut,      \* what the last Assemble returned: the words and the error
  asmSrc,      \* the source the last Assemble was called with
  disasm,      \* what the last Disassemble returned
  history,     \* simulateHandler: history
  runI,        \* simulateHandler: the loop counter i
  runN,        \* simulateHandler: req.MaxCycles
  runPc        \* simulateHandler: "idle" before a request, "loop" in the run
               \* loop, "done" once the response is written or the request
               \* dropped

vmVars == <<Registers, PC, SP, LR, SR, Memory, Halted, CycleCount>>
asmVars == <<Labels, Instructions, Address, asmOut, asmSrc>>
hostVars == <<disasm, history, runI, runN, runPc>>
vars == <<Registers, PC, SP, LR, SR, Memory, Halted, CycleCount, last, nLoads, nResets, nCalls,
          Labels, Instructions, Address, asmOut, asmSrc,
          disasm, history, runI, runN, runPc>>

----------------------------------------------------------------------------
(* Bounds of the exploration *)

MaxCycles == 8
MaxLoads == 2
MaxResets == 1

(* Program constants *)

MemWords == 32768
Word == 65536
InitSP == 65534
HaltWord == 65535

----------------------------------------------------------------------------
(* Go's bit operators on unsigned values *)

RECURSIVE BitAnd(_, _)
BitAnd(a, b) ==
  IF a = 0 \/ b = 0 THEN 0
  ELSE (a % 2) * (b % 2) + 2 * BitAnd(a \div 2, b \div 2)

RECURSIVE BitOr(_, _)
BitOr(a, b) ==
  IF a = 0 THEN b
  ELSE IF b = 0 THEN a
  ELSE (IF a % 2 = 1 \/ b % 2 = 1 THEN 1 ELSE 0) + 2 * BitOr(a \div 2, b \div 2)

RECURSIVE BitXor(_, _)
BitXor(a, b) ==
  IF a = 0 THEN b
  ELSE IF b = 0 THEN a
  ELSE ((a + b) % 2) + 2 * BitXor(a \div 2, b \div 2)

RECURSIVE Pow2(_)
Pow2(n) == IF n = 0 THEN 1 ELSE 2 * Pow2(n - 1)

----------------------------------------------------------------------------
(* The memory array *)

MemRead(mem, i) == IF i \in DOMAIN mem THEN mem[i] ELSE 0

MemWrite(mem, i, v) ==
  IF v = 0
  THEN [j \in (DOMAIN mem) \ {i} |-> mem[j]]
  ELSE [j \in (DOMAIN mem) \cup {i} |-> IF j = i THEN v ELSE mem[j]]

EmptyMemory == [j \in {} |-> 0]

ZeroRegisters == [r \in 0..15 |-> 0]

----------------------------------------------------------------------------
(* VM.LoadProgram: the words go to startAddr/2 + uint16(i) in order; an index *)
(* past the array panics, after the words before it have been written.       *)

LoadIndex(startAddr, i) == ((startAddr \div 2) + (i % Word)) % Word

SetMin(S) == CHOOSE x \in S : \A y \in S : x <= y
SetMax(S) == CHOOSE x \in S : \A y \in S : x >= y

(* The loop of VM.LoadProgram on memory mem: the memory it leaves and whether *)
(* it panicked.  The words before the first index past the array are written, *)
(* in order, so that a later word wins an index written twice.                *)
LoadWords(mem, program, startAddr) ==
  LET past == {i \in 0..(Len(program) - 1) : LoadIndex(startAddr, i) >= MemWords}
      limit == IF past = {} THEN Len(program) ELSE SetMin(past)
      written == {LoadIndex(startAddr, i) : i \in 0..(limit - 1)}
      value(j) == IF j \in written
                  THEN program[SetMax({i \in 0..(limit - 1) : LoadIndex(startAddr, i) = j}) + 1]
                  ELSE mem[j]
  IN [mem |-> [j \in {k \in (DOMAIN mem) \cup written : value(k) # 0} |-> value(j)],
      err |-> IF past = {} THEN "nil" ELSE "panic"]

----------------------------------------------------------------------------
(* VM.Fetch *)

FetchOutOfRange(pc) == (pc \div 2) >= MemWords

Fetch(mem, pc) ==
  IF FetchOutOfRange(pc)
  THEN [instruction |-> HaltWord, pc |-> pc]
  ELSE [instruction |-> MemRead(mem, pc \div 2), pc |-> (pc + 2) % Word]

(* VM.UpdateFlags and VM.UpdateFlagsWithCarry *)

FlagMask == 65520

UpdateFlags(sr, result) ==
  BitOr(BitOr(BitAnd(sr, FlagMask), IF result = 0 THEN 1 ELSE 0),
        IF BitAnd(result, 32768) # 0 THEN 2 ELSE 0)

CarryOutOffByOne(result) == result >= 65535

CarryOut(result) == result > 65535

UpdateFlagsWithCarry(sr, result) ==
  BitOr(UpdateFlags(sr, result % Word), IF CarryOut(result) THEN 4 ELSE 0)

----------------------------------------------------------------------------
(* VM.Step: the decoded fields *)

Opcode(instruction) == (instruction \div 4096) % 16
FieldRd(instruction) == (instruction \div 256) % 16
FieldRs(instruction) == (instruction \div 16) % 16
FieldRt(instruction) == instruction % 16
FieldImm8(instruction) == instruction % 256
FieldOffset(instruction) == instruction % 16
FieldAddr12(instruction) == instruction % 4096

WriteRegNoClobber(regs, rd, v) == [regs EXCEPT ![rd] = v]

(* vm.Registers[rd] = v; vm.Registers[0] = 0 *)
WriteReg(regs, rd, v) == [[regs EXCEPT ![rd] = v] EXCEPT ![0] = 0]

(* int16(int8(imm8)) when bit 7 is set, int16(imm8) otherwise *)
SignedOffset(imm8) == IF BitAnd(imm8, 128) # 0 THEN imm8 - 256 ELSE imm8

(* uint16(imm8) | 0xFF00 when bit 7 is set *)
SignExtend(imm8) == IF BitAnd(imm8, 128) # 0 THEN BitOr(imm8, 65280) ELSE imm8

(* uint16(int32(vm.PC) + int32(signedOffset)*2) *)
BranchTarget(pc, imm8) == (pc + SignedOffset(imm8) * 2) % Word

EffectiveIndexNoWrap(regs, rs, offset) == (regs[rs] + offset * 2) \div 2

(* (vm.Registers[rs] + uint16(offset)*2) / 2 *)
EffectiveIndex(regs, rs, offset) == ((regs[rs] + offset * 2) % Word) \div 2

IsHaltLowByte(instruction) == instruction = 255

IsHalt(instruction) == instruction = HaltWord

(* The ALU result of opcodes 0x3..0x9, a uint16 *)
AluResult(op, a, b) ==
  CASE op = 3 -> (a - b) % Word
    [] op = 4 -> BitAnd(a, b)
    [] op = 5 -> BitOr(a, b)
    [] op = 6 -> BitXor(a, b)
    [] op = 7 -> 65535 - a
    [] op = 8 -> (a * Pow2(BitAnd(b, 15))) % Word
    [] op = 9 -> a \div Pow2(BitAnd(b, 15))

(* The switch of VM.Step on a fetched instruction, from the state after the *)
(* fetch: the registers, PC, SR, memory and halted flag it leaves.           *)
Execute(instruction, regs, pc, sr, mem) ==
  LET op == Opcode(instruction)
      rd == FieldRd(instruction)
      rs == FieldRs(instruction)
      rt == FieldRt(instruction)
      imm8 == FieldImm8(instruction)
      offset == FieldOffset(instruction)
      same == [Registers |-> regs, PC |-> pc, SR |-> sr, Memory |-> mem, Halted |-> FALSE]
  IN
  CASE op = 0 -> same
    [] op = 1 ->
         LET result == regs[rs] + regs[rt]
         IN [same EXCEPT !.Registers = WriteReg(regs, rd, result % Word),
                         !.SR = UpdateFlagsWithCarry(sr, result)]
    [] op = 2 ->
         LET result == regs[rd] + imm8
         IN [same EXCEPT !.Registers = WriteReg(regs, rd, result % Word),
                         !.SR = UpdateFlagsWithCarry(sr, result)]
    [] op \in 3..9 ->
         LET result == AluResult(op, regs[rs], regs[rt])
         IN [same EXCEPT !.Registers = WriteReg(regs, rd, result),
                         !.SR = UpdateFlags(sr, result)]
    [] op = 10 ->
         LET address == EffectiveIndex(regs, rs, offset)
         IN IF address < MemWords
            THEN [same EXCEPT !.Registers = WriteReg(regs, rd, MemRead(mem, address))]
            ELSE same
    [] op = 11 ->
         LET address == EffectiveIndex(regs, rs, offset)
         IN IF address < MemWords
            THEN [same EXCEPT !.Memory = MemWrite(mem, address, regs[rd])]
            ELSE same
    [] op = 12 -> [same EXCEPT !.Registers = WriteReg(regs, rd, SignExtend(imm8))]
    [] op = 13 -> [same EXCEPT !.PC = FieldAddr12(instruction)]
    [] op = 14 ->
         IF regs[rd] = 0 THEN [same EXCEPT !.PC = BranchTarget(pc, imm8)] ELSE same
    [] op = 15 ->
         IF IsHalt(instruction) THEN [same EXCEPT !.Halted = TRUE]
         ELSE IF regs[rd] # 0 THEN [same EXCEPT !.PC = BranchTarget(pc, imm8)]
         ELSE same

----------------------------------------------------------------------------
(* Go strings, as sequences of characters: a character up to U+00FF is a   *)
(* one-character string, a character beyond it is the string of its code   *)
(* point, as "U+2000"                                                      *)

Digits == <<"0", "1", "2", "3", "4", "5", "6", "7", "8", "9">>
LowerCase == <<"a", "b", "c", "d", "e", "f", "g", "h", "i", "j", "k", "l", "m",
               "n", "o", "p", "q", "r", "s", "t", "u", "v", "w", "x", "y", "z">>
UpperCase == <<"A", "B", "C", "D", "E", "F", "G", "H", "I", "J", "K", "L", "M",
               "N", "O", "P", "Q", "R", "S", "T", "U", "V", "W", "X", "Y", "Z">>

(* unicode.IsSpace: tab, line feed, form feed, carriage return, space,     *)
(* vertical tab (U+000B), U+0085, U+00A0, and the white space beyond       *)
(* U+00FF                                                                  *)
IsSpace(c) ==
  \/ c \in {" ", "\t", "\n", "\r", "\f", "", "", " "}
  \/ c \in {"U+1680", "U+2000", "U+2001", "U+2002", "U+2003", "U+2004", "U+2005", "U+2006",
            "U+2007", "U+2008", "U+2009", "U+200A", "U+2028", "U+2029", "U+202F", "U+205F", "U+3000"}

PosIn(seq, c) == IF \E i \in 1..Len(seq) : seq[i] = c
                 THEN CHOOSE i \in 1..Len(seq) : seq[i] = c
                 ELSE 0

Drop(s, n) == SubSeq(s, n + 1, Len(s))
Take(s, n) == SubSeq(s, 1, n)

(* strings.Index(s, c) for a one-character c, counted from 1; 0 when absent *)
StrIndex(s, c) ==
  IF \E i \in 1..Len(s) : s[i] = c
  THEN CHOOSE i \in 1..Len(s) : s[i] = c /\ \A j \in 1..(i - 1) : s[j] # c
  ELSE 0

(* strings.TrimSpace *)
TrimSpace(s) ==
  LET keep == {i \in 1..Len(s) : ~IsSpace(s[i])}
  IN IF keep = {} THEN <<>>
     ELSE SubSeq(s, CHOOSE i \in keep : \A j \in keep : i <= j,
                    CHOOSE i \in keep : \A j \in keep : i >= j)

(* strings.Split(s, c) for a one-character c, on s[lo..hi]: the parts     *)
(* between the occurrences of c, always at least one part.  The two halves *)
(* are split and joined: the last part of the left one continues in the    *)
(* first part of the right one.                                            *)
RECURSIVE SplitRange(_, _, _, _)
SplitRange(s, c, lo, hi) ==
  IF lo > hi THEN << <<>> >>
  ELSE IF lo = hi THEN (IF s[lo] = c THEN << <<>>, <<>> >> ELSE << <<s[lo]>> >>)
  ELSE LET mid == (lo + hi) \div 2
           l == SplitRange(s, c, lo, mid)
           r == SplitRange(s, c, mid + 1, hi)
       IN SubSeq(l, 1, Len(l) - 1) \o << l[Len(l)] \o r[1] >> \o Tail(r)

StrSplit(s, c) == SplitRange(s, c, 1, Len(s))

(* strings.Fields: the maximal runs of non-space characters *)
RECURSIVE Fields(_)
Fields(s) ==
  IF s = <<>> THEN <<>>
  ELSE IF IsSpace(s[1]) THEN Fields(Tail(s))
  ELSE LET stops == {i \in 1..Len(s) : IsSpace(s[i])}
           n == IF stops = {} THEN Len(s)
                ELSE (CHOOSE i \in stops : \A j \in stops : i <= j) - 1
       IN <<Take(s, n)>> \o Fields(Drop(s, n))

(* strings.Join(parts, "") *)
RECURSIVE StrJoin(_)
StrJoin(parts) == IF parts = <<>> THEN <<>> ELSE Head(parts) \o StrJoin(Tail(parts))

(* unicode.CaseRanges, the upper-case delta of every range applied to each  *)
(* character of the range: records of a character and its upper case, each *)
(* padded with spaces to seven places.                                      *)
CaseRanges ==
  "µ      U+039C à      À      á      Á      â      Â      ã      Ã      ä      Ä      å      Å      æ      Æ      ç      Ç      è      È      é      É      ê      Ê      ë      Ë      ì      Ì      í      Í      î      Î      ï      Ï      ð      Ð      ñ      Ñ      ò      Ò      ó      Ó      ô      Ô      õ      Õ      ö      Ö      ø      Ø      ù      Ù      ú      Ú      û      Û      ü      Ü      ý      Ý      þ      Þ      ÿ      U+0178 U+0101 U+0100 U+0103 U+0102 U+0105 U+0104 U+0107 U+0106 U+0109 U+0108 U+010B U+010A U+010D U+010C U+010F U+010E U+0111 U+0110 U+0113 U+0112 U+0115 U+0114 U+0117 U+0116 U+0119 U+0118 U+011B U+011A U+011D U+011C U+011F U+011E U+0121 U+0120 U+0123 U+0122 U+0125 U+0124 U+0127 U+0126 U+0129 U+0128 U+012B U+012A U+012D U+012C U+012F U+012E U+0131 I      U+0133 U+0132 U+0135 U+0134 U+0137 U+0136 U+013A U+0139 U+013C U+013B U+013E U+013D U+0140 U+013F U+0142 U+0141 U+0144 U+0143 U+0146 U+0145 U+0148 U+0147 U+014B U+014A U+014D U+014C U+014F U+014E U+0151 U+0150 U+0153 U+0152 U+0155 U+0154 U+0157 U+0156 U+0159 U+0158 U+015B U+015A U+015D U+015C U+015F U+015E U+0161 U+0160 U+0163 U+0162 U+0165 U+0164 U+0167 U+0166 U+0169 U+0168 U+016B U+016A U+016D U+016C U+016F U+016E U+0171 U+0170 U+0173 U+0172 U+0175 U+0174 U+0177 U+0176 U+017A U+0179 U+017C U+017B U+017E U+017D U+017F S      U+0180 U+0243 U+0183 U+0182 U+0185 U+0184 U+0188 U+0187 U+018C U+018B U+0192 U+0191 U+0195 U+01F6 U+0199 U+0198 U+019A U+023D U+019E U+0220 U+01A1 U+01A0 U+01A3 U+01A2 U+01A5 U+01A4 U+01A8 U+01A7 U+01AD U+01AC U+01B0 U+01AF U+01B4 U+01B3 U+01B6 U+01B5 U+01B9 U+01B8 U+01BD U+01BC U+01BF U+01F7 U+01C5 U+01C4 U+01C6 U+01C4 U+01C8 U+01C7 U+01C9 U+01C7 U+01CB U+01CA U+01CC U+01CA U+01CE U+01CD U+01D0 U+01CF U+01D2 U+01D1 U+01D4 U+01D3 U+01D6 U+01D5 U+01D8 U+01D7 U+01DA U+01D9 U+01DC U+01DB U+01DD U+018E U+01DF U+01DE U+01E1 U+01E0 U+01E3 U+01E2 U+01E5 U+01E4 U+01E7 U+01E6 U+01E9 U+01E8 U+01EB U+01EA U+01ED U+01EC U+01EF U+01EE U+01F2 U+01F1 U+01F3 U+01F1 U+01F5 U+01F4 U+01F9 U+01F8 U+01FB U+01FA U+01FD U+01FC U+01FF U+01FE U+0201 U+0200 U+0203 U+0202 U+0205 U+0204 U+0207 U+0206 U+0209 U+0208 U+020B U+020A U+020D U+020C U+020F U+020E U+0211 U+0210 U+0213 U+0212 U+0215 U+0214 U+0217 U+0216 U+0219 U+0218 U+021B U+021A U+021D U+021C U+021F U+021E U+0223 U+0222 U+0225 U+0224 U+0227 U+0226 U+0229 U+0228 U+022B U+022A U+022D U+022C U+022F U+022E U+0231 U+0230 U+0233 U+0232 U+023C U+023B U+023F U+2C7E U+0240 U+2C7F U+0242 U+0241 U+0247 U+0246 U+0249 U+0248 U+024B U+024A U+024D U+024C U+024F U+024E U+0250 U+2C6F U+0251 U+2C6D U+0252 U+2C70 U+0253 U+0181 U+0254 U+0186 U+0256 U+0189 U+0257 U+018A U+0259 U+018F U+025B U+0190 U+025C U+A7AB U+0260 U+0193 U+0261 U+A7AC U+0263 U+0194 U+0265 U+A78D U+0266 U+A7AA U+0268 U+0197 U+0269 U+0196 U+026A U+A7AE U+026B U+2C62 U+026C U+A7AD U+026F U+019C U+0271 U+2C6E U+0272 U+019D U+0275 U+019F U+027D U+2C64 U+0280 U+01A6 U+0282 U+A7C5 U+0283 U+01A9 U+0287 U+A7B1 U+0288 U+01AE U+0289 U+0244 U+028A U+01B1 U+028B U+01B2 U+028C U+0245 U+0292 U+01B7 U+029D U+A7B2 U+029E U+A7B0 U+0345 U+0399 U+0371 U+0370 U+0373 U+0372 U+0377 U+0376 U+037B U+03FD U+037C U+03FE U+037D U+03FF U+03AC U+0386 U+03AD U+0388 U+03AE U+0389 U+03AF U+038A U+03B1 U+0391 U+03B2 U+0392 U+03B3 U+0393 U+03B4 U+0394 U+03B5 U+0395 U+03B6 U+0396 U+03B7 U+0397 U+03B8 U+0398 U+03B9 U+0399 U+03BA U+039A U+03BB U+039B U+03BC U+039C U+03BD U+039D U+03BE U+039E U+03BF U+039F U+03C0 U+03A0 U+03C1 U+03A1 U+03C2 U+03A3 U+03C3 U+03A3 U+03C4 U+03A4 U+03C5 U+03A5 U+03C6 U+03A6 U+03C7 U+03A7 U+03C8 U+03A8 U+03C9 U+03A9 U+03CA U+03AA U+03CB U+03AB U+03CC U+038C U+03CD U+038E U+03CE U+038F U+03D0 U+0392 U+03D1 U+0398 U+03D5 U+03A6 U+03D6 U+03A0 U+03D7 U+03CF U+03D9 U+03D8 U+03DB U+03DA U+03DD U+03DC U+03DF U+03DE U+03E1 U+03E0 U+03E3 U+03E2 U+03E5 U+03E4 U+03E7 U+03E6 U+03E9 U+03E8 U+03EB U+03EA U+03ED U+03EC U+03EF U+03EE U+03F0 U+039A U+03F1 U+03A1 U+03F2 U+03F9 U+03F3 U+037F U+03F5 U+0395 U+03F8 U+03F7 U+03FB U+03FA U+0430 U+0410 U+0431 U+0411 U+0432 U+0412 U+0433 U+0413 U+0434 U+0414 U+0435 U+0415 U+0436 U+0416 U+0437 U+0417 U+0438 U+0418 U+0439 U+0419 U+043A U+041A U+043B U+041B U+043C U+041C U+043D U+041D U+043E U+041E U+043F U+041F U+0440 U+0420 U+0441 U+0421 U+0442 U+0422 U+0443 U+0423 U+0444 U+0424 U+0445 U+0425 U+0446 U+0426 U+0447 U+0427 U+0448 U+0428 U+0449 U+0429 U+044A U+042A U+044B U+042B U+044C U+042C U+044D U+042D U+044E U+042E U+044F U+042F U+0450 U+0400 U+0451 U+0401 U+0452 U+0402 U+0453 U+0403 U+0454 U+0404 U+0455 U+0405 U+0456 U+0406 U+0457 U+0407 U+0458 U+0408 U+0459 U+0409 U+045A U+040A U+045B U+040B U+045C U+040C U+045D U+040D U+045E U+040E U+045F U+040F U+0461 U+0460 U+0463 U+0462 U+0465 U+0464 U+0467 U+0466 U+0469 U+0468 U+046B U+046A U+046D U+046C U+046F U+046E U+0471 U+0470 U+0473 U+0472 U+0475 U+0474 U+0477 U+0476 U+0479 U+0478 U+047B U+047A U+047D U+047C U+047F U+047E U+0481 U+0480 U+048B U+048A U+048D U+048C U+048F U+048E U+0491 U+0490 U+0493 U+0492 U+0495 U+0494 U+0497 U+0496 U+0499 U+0498 U+049B U+049A U+049D U+049C U+049F U+049E U+04A1 U+04A0 U+04A3 U+04A2 U+04A5 U+04A4 U+04A7 U+04A6 U+04A9 U+04A8 U+04AB U+04AA U+04AD U+04AC U+04AF U+04AE U+04B1 U+04B0 U+04B3 U+04B2 U+04B5 U+04B4 U+04B7 U+04B6 U+04B9 U+04B8 U+04BB U+04BA U+04BD U+04BC U+04BF U+04BE U+04C2 U+04C1 U+04C4 U+04C3 U+04C6 U+04C5 U+04C8 U+04C7 U+04CA U+04C9 U+04CC U+04CB U+04CE U+04CD U+04CF U+04C0 U+04D1 U+04D0 U+04D3 U+04D2 U+04D5 U+04D4 U+04D7 U+04D6 U+04D9 U+04D8 U+04DB U+04DA U+04DD U+04DC U+04DF U+04DE U+04E1 U+04E0 U+04E3 U+04E2 U+04E5 U+04E4 U+04E7 U+04E6 U+04E9 U+04E8 U+04EB U+04EA U+04ED U+04EC U+04EF U+04EE U+04F1 U+04F0 U+04F3 U+04F2 U+04F5 U+04F4 U+04F7 U+04F6 U+04F9 U+04F8 U+04FB U+04FA U+04FD U+04FC U+04FF U+04FE U+0501 U+0500 U+0503 U+0502 U+0505 U+0504 U+0507 U+0506 U+0509 U+0508 U+050B U+050A U+050D U+050C U+050F U+050E U+0511 U+0510 U+0513 U+0512 U+0515 U+0514 U+0517 U+0516 U+0519 U+0518 U+051B U+051A U+051D U+051C U+051F U+051E U+0521 U+0520 U+0523 U+0522 U+0525 U+0524 U+0527 U+0526 U+0529 U+0528 U+052B U+052A U+052D U+052C U+052F U+052E U+0561 U+0531 U+0562 U+0532 U+0563 U+0533 U+0564 U+0534 U+0565 U+0535 U+0566 U+0536 U+0567 U+0537 U+0568 U+0538 U+0569 U+0539 U+056A U+053A U+056B U+053B U+056C U+053C U+056D U+053D U+056E U+053E U+056F U+053F U+0570 U+0540 U+0571 U+0541 U+0572 U+0542 U+0573 U+0543 U+0574 U+0544 U+0575 U+0545 U+0576 U+0546 U+0577 U+0547 U+0578 U+0548 U+0579 U+0549 U+057A U+054A U+057B U+054B U+057C U+054C U+057D U+054D U+057E U+054E U+057F U+054F U+0580 U+0550 U+0581 U+0551 U+0582 U+0552 U+0583 U+0553 U+0584 U+0554 U+0585 U+0555 U+0586 U+0556 U+10D0 U+1C90 U+10D1 U+1C91 U+10D2 U+1C92 U+10D3 U+1C93 U+10D4 U+1C94 U+10D5 U+1C95 U+10D6 U+1C96 U+10D7 U+1C97 U+10D8 U+1C98 U+10D9 U+1C99 U+10DA U+1C9A U+10DB U+1C9B U+10DC U+1C9C U+10DD U+1C9D U+10DE U+1C9E U+10DF U+1C9F U+10E0 U+1CA0 U+10E1 U+1CA1 U+10E2 U+1CA2 U+10E3 U+1CA3 U+10E4 U+1CA4 U+10E5 U+1CA5 U+10E6 U+1CA6 U+10E7 U+1CA7 U+10E8 U+1CA8 U+10E9 U+1CA9 U+10EA U+1CAA U+10EB U+1CAB U+10EC U+1CAC U+10ED U+1CAD U+10EE U+1CAE U+10EF U+1CAF U+10F0 U+1CB0 U+10F1 U+1CB1 U+10F2 U+1CB2 U+10F3 U+1CB3 U+10F4 U+1CB4 U+10F5 U+1CB5 U+10F6 U+1CB6 U+10F7 U+1CB7 U+10F8 U+1CB8 U+10F9 U+1CB9 U+10FA U+1CBA U+10FD U+1CBD U+10FE U+1CBE U+10FF U+1CBF U+13F8 U+13F0 U+13F9 U+13F1 U+13FA U+13F2 U+13FB U+13F3 U+13FC U+13F4 U+13FD U+13F5 U+1C80 U+0412 U+1C81 U+0414 U+1C82 U+041E U+1C83 U+0421 U+1C84 U+0422 U+1C85 U+0422 U+1C86 U+042A U+1C87 U+0462 U+1C88 U+A64A U+1D79 U+A77D U+1D7D U+2C63 U+1D8E U+A7C6 U+1E01 U+1E00 U+1E03 U+1E02 U+1E05 U+1E04 U+1E07 U+1E06 U+1E09 U+1E08 U+1E0B U+1E0A U+1E0D U+1E0C U+1E0F U+1E0E U+1E11 U+1E10 U+1E13 U+1E12 U+1E15 U+1E14 U+1E17 U+1E16 U+1E19 U+1E18 U+1E1B U+1E1A U+1E1D U+1E1C U+1E1F U+1E1E U+1E21 U+1E20 U+1E23 U+1E22 U+1E25 U+1E24 U+1E27 U+1E26 U+1E29 U+1E28 U+1E2B U+1E2A U+1E2D U+1E2C U+1E2F U+1E2E U+1E31 U+1E30 U+1E33 U+1E32 U+1E35 U+1E34 U+1E37 U+1E36 U+1E39 U+1E38 U+1E3B U+1E3A U+1E3D U+1E3C U+1E3F U+1E3E U+1E41 U+1E40 U+1E43 U+1E42 U+1E45 U+1E44 U+1E47 U+1E46 U+1E49 U+1E48 U+1E4B U+1E4A U+1E4D U+1E4C U+1E4F U+1E4E U+1E51 U+1E50 U+1E53 U+1E52 U+1E55 U+1E54 U+1E57 U+1E56 U+1E59 U+1E58 U+1E5B U+1E5A U+1E5D U+1E5C U+1E5F U+1E5E U+1E61 U+1E60 U+1E63 U+1E62 U+1E65 U+1E64 U+1E67 U+1E66 U+1E69 U+1E68 U+1E6B U+1E6A U+1E6D U+1E6C U+1E6F U+1E6E U+1E71 U+1E70 U+1E73 U+1E72 U+1E75 U+1E74 U+1E77 U+1E76 U+1E79 U+1E78 U+1E7B U+1E7A U+1E7D U+1E7C U+1E7F U+1E7E U+1E81 U+1E80 U+1E83 U+1E82 U+1E85 U+1E84 U+1E87 U+1E86 U+1E89 U+1E88 U+1E8B U+1E8A U+1E8D U+1E8C U+1E8F U+1E8E U+1E91 U+1E90 U+1E93 U+1E92 U+1E95 U+1E94 U+1E9B U+1E60 U+1EA1 U+1EA0 U+1EA3 U+1EA2 U+1EA5 U+1EA4 U+1EA7 U+1EA6 U+1EA9 U+1EA8 U+1EAB U+1EAA U+1EAD U+1EAC U+1EAF U+1EAE U+1EB1 U+1EB0 U+1EB3 U+1EB2 U+1EB5 U+1EB4 U+1EB7 U+1EB6 U+1EB9 U+1EB8 U+1EBB U+1EBA U+1EBD U+1EBC U+1EBF U+1EBE U+1EC1 U+1EC0 U+1EC3 U+1EC2 U+1EC5 U+1EC4 U+1EC7 U+1EC6 U+1EC9 U+1EC8 U+1ECB U+1ECA U+1ECD U+1ECC U+1ECF U+1ECE U+1ED1 U+1ED0 U+1ED3 U+1ED2 U+1ED5 U+1ED4 U+1ED7 U+1ED6 U+1ED9 U+1ED8 U+1EDB U+1EDA U+1EDD U+1EDC U+1EDF U+1EDE U+1EE1 U+1EE0 U+1EE3 U+1EE2 U+1EE5 U+1EE4 U+1EE7 U+1EE6 U+1EE9 U+1EE8 U+1EEB U+1EEA U+1EED U+1EEC U+1EEF U+1EEE U+1EF1 U+1EF0 U+1EF3 U+1EF2 U+1EF5 U+1EF4 U+1EF7 U+1EF6 U+1EF9 U+1EF8 U+1EFB U+1EFA U+1EFD U+1EFC U+1EFF U+1EFE U+1F00 U+1F08 U+1F01 U+1F09 U+1F02 U+1F0A U+1F03 U+1F0B U+1F04 U+1F0C U+1F05 U+1F0D U+1F06 U+1F0E U+1F07 U+1F0F U+1F10 U+1F18 U+1F11 U+1F19 U+1F12 U+1F1A U+1F13 U+1F1B U+1F14 U+1F1C U+1F15 U+1F1D U+1F20 U+1F28 U+1F21 U+1F29 U+1F22 U+1F2A U+1F23 U+1F2B U+1F24 U+1F2C U+1F25 U+1F2D U+1F26 U+1F2E U+1F27 U+1F2F U+1F30 U+1F38 U+1F31 U+1F39 U+1F32 U+1F3A U+1F33 U+1F3B U+1F34 U+1F3C U+1F35 U+1F3D U+1F36 U+1F3E U+1F37 U+1F3F U+1F40 U+1F48 U+1F41 U+1F49 U+1F42 U+1F4A U+1F43 U+1F4B U+1F44 U+1F4C U+1F45 U+1F4D U+1F51 U+1F59 U+1F53 U+1F5B U+1F55 U+1F5D U+1F57 U+1F5F U+1F60 U+1F68 U+1F61 U+1F69 U+1F62 U+1F6A U+1F63 U+1F6B U+1F64 U+1F6C U+1F65 U+1F6D U+1F66 U+1F6E U+1F67 U+1F6F U+1F70 U+1FBA U+1F71 U+1FBB U+1F72 U+1FC8 U+1F73 U+1FC9 U+1F74 U+1FCA U+1F75 U+1FCB U+1F76 U+1FDA U+1F77 U+1FDB U+1F78 U+1FF8 U+1F79 U+1FF9 U+1F7A U+1FEA U+1F7B U+1FEB U+1F7C U+1FFA U+1F7D U+1FFB U+1F80 U+1F88 U+1F81 U+1F89 U+1F82 U+1F8A U+1F83 U+1F8B U+1F84 U+1F8C U+1F85 U+1F8D U+1F86 U+1F8E U+1F87 U+1F8F U+1F90 U+1F98 U+1F91 U+1F99 U+1F92 U+1F9A U+1F93 U+1F9B U+1F94 U+1F9C U+1F95 U+1F9D U+1F96 U+1F9E U+1F97 U+1F9F U+1FA0 U+1FA8 U+1FA1 U+1FA9 U+1FA2 U+1FAA U+1FA3 U+1FAB U+1FA4 U+1FAC U+1FA5 U+1FAD U+1FA6 U+1FAE U+1FA7 U+1FAF U+1FB0 U+1FB8 U+1FB1 U+1FB9 U+1FB3 U+1FBC U+1FBE U+0399 U+1FC3 U+1FCC U+1FD0 U+1FD8 U+1FD1 U+1FD9 U+1FE0 U+1FE8 U+1FE1 U+1FE9 U+1FE5 U+1FEC U+1FF3 U+1FFC U+214E U+2132 U+2170 U+2160 U+2171 U+2161 U+2172 U+2162 U+2173 U+2163 U+2174 U+2164 U+2175 U+2165 U+2176 U+2166 U+2177 U+2167 U+2178 U+2168 U+2179 U+2169 U+217A U+216A U+217B U+216B U+217C U+216C U+217D U+216D U+217E U+216E U+217F U+216F U+2184 U+2183 U+24D0 U+24B6 U+24D1 U+24B7 U+24D2 U+24B8 U+24D3 U+24B9 U+24D4 U+24BA U+24D5 U+24BB U+24D6 U+24BC U+24D7 U+24BD U+24D8 U+24BE U+24D9 U+24BF U+24DA U+24C0 U+24DB U+24C1 U+24DC U+24C2 U+24DD U+24C3 U+24DE U+24C4 U+24DF U+24C5 U+24E0 U+24C6 U+24E1 U+24C7 U+24E2 U+24C8 U+24E3 U+24C9 U+24E4 U+24CA U+24E5 U+24CB U+24E6 U+24CC U+24E7 U+24CD U+24E8 U+24CE U+24E9 U+24CF U+2C30 U+2C00 U+2C31 U+2C01 U+2C32 U+2C02 U+2C33 U+2C03 U+2C34 U+2C04 U+2C35 U+2C05 U+2C36 U+2C06 U+2C37 U+2C07 U+2C38 U+2C08 U+2C39 U+2C09 U+2C3A U+2C0A U+2C3B U+2C0B U+2C3C U+2C0C U+2C3D U+2C0D U+2C3E U+2C0E U+2C3F U+2C0F U+2C40 U+2C10 U+2C41 U+2C11 U+2C42 U+2C12 U+2C43 U+2C13 U+2C44 U+2C14 U+2C45 U+2C15 U+2C46 U+2C16 U+2C47 U+2C17 U+2C48 U+2C18 U+2C49 U+2C19 U+2C4A U+2C1A U+2C4B U+2C1B U+2C4C U+2C1C U+2C4D U+2C1D U+2C4E U+2C1E U+2C4F U+2C1F U+2C50 U+2C20 U+2C51 U+2C21 U+2C52 U+2C22 U+2C53 U+2C23 U+2C54 U+2C24 U+2C55 U+2C25 U+2C56 U+2C26 U+2C57 U+2C27 U+2C58 U+2C28 U+2C59 U+2C29 U+2C5A U+2C2A U+2C5B U+2C2B U+2C5C U+2C2C U+2C5D U+2C2D U+2C5E U+2C2E U+2C5F U+2C2F U+2C61 U+2C60 U+2C65 U+023A U+2C66 U+023E U+2C68 U+2C67 U+2C6A U+2C69 U+2C6C U+2C6B U+2C73 U+2C72 U+2C76 U+2C75 U+2C81 U+2C80 U+2C83 U+2C82 U+2C85 U+2C84 U+2C87 U+2C86 U+2C89 U+2C88 U+2C8B U+2C8A U+2C8D U+2C8C U+2C8F U+2C8E U+2C91 U+2C90 U+2C93 U+2C92 U+2C95 U+2C94 U+2C97 U+2C96 U+2C99 U+2C98 U+2C9B U+2C9A U+2C9D U+2C9C U+2C9F U+2C9E U+2CA1 U+2CA0 U+2CA3 U+2CA2 U+2CA5 U+2CA4 U+2CA7 U+2CA6 U+2CA9 U+2CA8 U+2CAB U+2CAA U+2CAD U+2CAC U+2CAF U+2CAE U+2CB1 U+2CB0 U+2CB3 U+2CB2 U+2CB5 U+2CB4 U+2CB7 U+2CB6 U+2CB9 U+2CB8 U+2CBB U+2CBA U+2CBD U+2CBC U+2CBF U+2CBE U+2CC1 U+2CC0 U+2CC3 U+2CC2 U+2CC5 U+2CC4 U+2CC7 U+2CC6 U+2CC9 U+2CC8 U+2CCB U+2CCA U+2CCD U+2CCC U+2CCF U+2CCE U+2CD1 U+2CD0 U+2CD3 U+2CD2 U+2CD5 U+2CD4 U+2CD7 U+2CD6 U+2CD9 U+2CD8 U+2CDB U+2CDA U+2CDD U+2CDC U+2CDF U+2CDE U+2CE1 U+2CE0 U+2CE3 U+2CE2 U+2CEC U+2CEB U+2CEE U+2CED U+2CF3 U+2CF2 U+2D00 U+10A0 U+2D01 U+10A1 U+2D02 U+10A2 U+2D03 U+10A3 U+2D04 U+10A4 U+2D05 U+10A5 U+2D06 U+10A6 U+2D07 U+10A7 U+2D08 U+10A8 U+2D09 U+10A9 U+2D0A U+10AA U+2D0B U+10AB U+2D0C U+10AC U+2D0D U+10AD U+2D0E U+10AE U+2D0F U+10AF U+2D10 U+10B0 U+2D11 U+10B1 U+2D12 U+10B2 U+2D13 U+10B3 U+2D14 U+10B4 U+2D15 U+10B5 U+2D16 U+10B6 U+2D17 U+10B7 U+2D18 U+10B8 U+2D19 U+10B9 U+2D1A U+10BA U+2D1B U+10BB U+2D1C U+10BC U+2D1D U+10BD U+2D1E U+10BE U+2D1F U+10BF U+2D20 U+10C0 U+2D21 U+10C1 U+2D22 U+10C2 U+2D23 U+10C3 U+2D24 U+10C4 U+2D25 U+10C5 U+2D27 U+10C7 U+2D2D U+10CD U+A641 U+A640 U+A643 U+A642 U+A645 U+A644 U+A647 U+A646 U+A649 U+A648 U+A64B U+A64A U+A64D U+A64C U+A64F U+A64E U+A651 U+A650 U+A653 U+A652 U+A655 U+A654 U+A657 U+A656 U+A659 U+A658 U+A65B U+A65A U+A65D U+A65C U+A65F U+A65E U+A661 U+A660 U+A663 U+A662 U+A665 U+A664 U+A667 U+A666 U+A669 U+A668 U+A66B U+A66A U+A66D U+A66C U+A681 U+A680 U+A683 U+A682 U+A685 U+A684 U+A687 U+A686 U+A689 U+A688 U+A68B U+A68A U+A68D U+A68C U+A68F U+A68E U+A691 U+A690 U+A693 U+A692 U+A695 U+A694 U+A697 U+A696 U+A699 U+A698 U+A69B U+A69A U+A723 U+A722 U+A725 U+A724 U+A727 U+A726 U+A729 U+A728 U+A72B U+A72A U+A72D U+A72C U+A72F U+A72E U+A733 U+A732 U+A735 U+A734 U+A737 U+A736 U+A739 U+A738 U+A73B U+A73A U+A73D U+A73C U+A73F U+A73E U+A741 U+A740 U+A743 U+A742 U+A745 U+A744 U+A747 U+A746 U+A749 U+A748 U+A74B U+A74A U+A74D U+A74C U+A74F U+A74E U+A751 U+A750 U+A753 U+A752 U+A755 U+A754 U+A757 U+A756 U+A759 U+A758 U+A75B U+A75A U+A75D U+A75C U+A75F U+A75E U+A761 U+A760 U+A763 U+A762 U+A765 U+A764 U+A767 U+A766 U+A769 U+A768 U+A76B U+A76A U+A76D U+A76C U+A76F U+A76E U+A77A U+A779 U+A77C U+A77B U+A77F U+A77E U+A781 U+A780 U+A783 U+A782 U+A785 U+A784 U+A787 U+A786 U+A78C U+A78B U+A791 U+A790 U+A793 U+A792 U+A794 U+A7C4 U+A797 U+A796 U+A799 U+A798 U+A79B U+A79A U+A79D U+A79C U+A79F U+A79E U+A7A1 U+A7A0 U+A7A3 U+A7A2 U+A7A5 U+A7A4 U+A7A7 U+A7A6 U+A7A9 U+A7A8 U+A7B5 U+A7B4 U+A7B7 U+A7B6 U+A7B9 U+A7B8 U+A7BB U+A7BA U+A7BD U+A7BC U+A7BF U+A7BE U+A7C1 U+A7C0 U+A7C3 U+A7C2 U+A7C8 U+A7C7 U+A7CA U+A7C9 U+A7D1 U+A7D0 U+A7D7 U+A7D6 U+A7D9 U+A7D8 U+A7F6 U+A7F5 U+AB53 U+A7B3 U+AB70 U+13A0 U+AB71 U+13A1 U+AB72 U+13A2 U+AB73 U+13A3 U+AB74 U+13A4 U+AB75 U+13A5 U+AB76 U+13A6 U+AB77 U+13A7 U+AB78 U+13A8 U+AB79 U+13A9 U+AB7A U+13AA U+AB7B U+13AB U+AB7C U+13AC U+AB7D U+13AD U+AB7E U+13AE U+AB7F U+13AF U+AB80 U+13B0 U+AB81 U+13B1 U+AB82 U+13B2 U+AB83 U+13B3 U+AB84 U+13B4 U+AB85 U+13B5 U+AB86 U+13B6 U+AB87 U+13B7 U+AB88 U+13B8 U+AB89 U+13B9 U+AB8A U+13BA U+AB8B U+13BB U+AB8C U+13BC U+AB8D U+13BD U+AB8E U+13BE U+AB8F U+13BF U+AB90 U+13C0 U+AB91 U+13C1 U+AB92 U+13C2 U+AB93 U+13C3 U+AB94 U+13C4 U+AB95 U+13C5 U+AB96 U+13C6 U+AB97 U+13C7 U+AB98 U+13C8 U+AB99 U+13C9 U+AB9A U+13CA U+AB9B U+13CB U+AB9C U+13CC U+AB9D U+13CD U+AB9E U+13CE U+AB9F U+13CF U+ABA0 U+13D0 U+ABA1 U+13D1 U+ABA2 U+13D2 U+ABA3 U+13D3 U+ABA4 U+13D4 U+ABA5 U+13D5 U+ABA6 U+13D6 U+ABA7 U+13D7 U+ABA8 U+13D8 U+ABA9 U+13D9 U+ABAA U+13DA U+ABAB U+13DB U+ABAC U+13DC U+ABAD U+13DD U+ABAE U+13DE U+ABAF U+13DF U+ABB0 U+13E0 U+ABB1 U+13E1 U+ABB2 U+13E2 U+ABB3 U+13E3 U+ABB4 U+13E4 U+ABB5 U+13E5 U+ABB6 U+13E6 U+ABB7 U+13E7 U+ABB8 U+13E8 U+ABB9 U+13E9 U+ABBA U+13EA U+ABBB U+13EB U+ABBC U+13EC U+ABBD U+13ED U+ABBE U+13EE U+ABBF U+13EF U+FF41 U+FF21 U+FF42 U+FF22 U+FF43 U+FF23 U+FF44 U+FF24 U+FF45 U+FF25 U+FF46 U+FF26 U+FF47 U+FF27 U+FF48 U+FF28 U+FF49 U+FF29 U+FF4A U+FF2A U+FF4B U+FF2B U+FF4C U+FF2C U+FF4D U+FF2D U+FF4E U+FF2E U+FF4F U+FF2F U+FF50 U+FF30 U+FF51 U+FF31 U+FF52 U+FF32 U+FF53 U+FF33 U+FF54 U+FF34 U+FF55 U+FF35 U+FF56 U+FF36 U+FF57 U+FF37 U+FF58 U+FF38 U+FF59 U+FF39 U+FF5A U+FF3A U+10428U+10400U+10429U+10401U+1042AU+10402U+1042BU+10403U+1042CU+10404U+1042DU+10405U+1042EU+10406U+1042FU+10407U+10430U+10408U+10431U+10409U+10432U+1040AU+10433U+1040BU+10434U+1040CU+10435U+1040DU+10436U+1040EU+10437U+1040FU+10438U+10410U+10439U+10411U+1043AU+10412U+1043BU+10413U+1043CU+10414U+1043DU+10415U+1043EU+10416U+1043FU+10417U+10440U+10418U+10441U+10419U+10442U+1041AU+10443U+1041BU+10444U+1041CU+10445U+1041DU+10446U+1041EU+10447U+1041FU+10448U+10420U+10449U+10421U+1044AU+10422U+1044BU+10423U+1044CU+10424U+1044DU+10425U+1044EU+10426U+1044FU+10427U+104D8U+104B0U+104D9U+104B1U+104DAU+104B2U+104DBU+104B3U+104DCU+104B4U+104DDU+104B5U+104DEU+104B6U+104DFU+104B7U+104E0U+104B8U+104E1U+104B9U+104E2U+104BAU+104E3U+104BBU+104E4U+104BCU+104E5U+104BDU+104E6U+104BEU+104E7U+104BFU+104E8U+104C0U+104E9U+104C1U+104EAU+104C2U+104EBU+104C3U+104ECU+104C4U+104EDU+104C5U+104EEU+104C6U+104EFU+104C7U+104F0U+104C8U+104F1U+104C9U+104F2U+104CAU+104F3U+104CBU+104F4U+104CCU+104F5U+104CDU+104F6U+104CEU+104F7U+104CFU+104F8U+104D0U+104F9U+104D1U+104FAU+104D2U+104FBU+104D3U+10597U+10570U+10598U+10571U+10599U+10572U+1059AU+10573U+1059BU+10574U+1059CU+10575U+1059DU+10576U+1059EU+10577U+1059FU+10578U+105A0U+10579U+105A1U+1057AU+105A3U+1057CU+105A4U+1057DU+105A5U+1057EU+105A6U+1057FU+105A7U+10580U+105A8U+10581U+105A9U+10582U+105AAU+10583U+105ABU+10584U+105ACU+10585U+105ADU+10586U+105AEU+10587U+105AFU+10588U+105B0U+10589U+105B1U+1058AU+105B3U+1058CU+105B4U+1058DU+105B5U+1058EU+105B6U+1058FU+105B7U+10590U+105B8U+10591U+105B9U+10592U+105BBU+10594U+105BCU+10595U+10CC0U+10C80U+10CC1U+10C81U+10CC2U+10C82U+10CC3U+10C83U+10CC4U+10C84U+10CC5U+10C85U+10CC6U+10C86U+10CC7U+10C87U+10CC8U+10C88U+10CC9U+10C89U+10CCAU+10C8AU+10CCBU+10C8BU+10CCCU+10C8CU+10CCDU+10C8DU+10CCEU+10C8EU+10CCFU+10C8FU+10CD0U+10C90U+10CD1U+10C91U+10CD2U+10C92U+10CD3U+10C93U+10CD4U+10C94U+10CD5U+10C95U+10CD6U+10C96U+10CD7U+10C97U+10CD8U+10C98U+10CD9U+10C99U+10CDAU+10C9AU+10CDBU+10C9BU+10CDCU+10C9CU+10CDDU+10C9DU+10CDEU+10C9EU+10CDFU+10C9FU+10CE0U+10CA0U+10CE1U+10CA1U+10CE2U+10CA2U+10CE3U+10CA3U+10CE4U+10CA4U+10CE5U+10CA5U+10CE6U+10CA6U+10CE7U+10CA7U+10CE8U+10CA8U+10CE9U+10CA9U+10CEAU+10CAAU+10CEBU+10CABU+10CECU+10CACU+10CEDU+10CADU+10CEEU+10CAEU+10CEFU+10CAFU+10CF0U+10CB0U+10CF1U+10CB1U+10CF2U+10CB2U+118C0U+118A0U+118C1U+118A1U+118C2U+118A2U+118C3U+118A3U+118C4U+118A4U+118C5U+118A5U+118C6U+118A6U+118C7U+118A7U+118C8U+118A8U+118C9U+118A9U+118CAU+118AAU+118CBU+118ABU+118CCU+118ACU+118CDU+118ADU+118CEU+118AEU+118CFU+118AFU+118D0U+118B0U+118D1U+118B1U+118D2U+118B2U+118D3U+118B3U+118D4U+118B4U+118D5U+118B5U+118D6U+118B6U+118D7U+118B7U+118D8U+118B8U+118D9U+118B9U+118DAU+118BAU+118DBU+118BBU+118DCU+118BCU+118DDU+118BDU+118DEU+118BEU+118DFU+118BFU+16E60U+16E40U+16E61U+16E41U+16E62U+16E42U+16E63U+16E43U+16E64U+16E44U+16E65U+16E45U+16E66U+16E46U+16E67U+16E47U+16E68U+16E48U+16E69U+16E49U+16E6AU+16E4AU+16E6BU+16E4BU+16E6CU+16E4CU+16E6DU+16E4DU+16E6EU+16E4EU+16E6FU+16E4FU+16E70U+16E50U+16E71U+16E51U+16E72U+16E52U+16E73U+16E53U+16E74U+16E54U+16E75U+16E55U+16E76U+16E56U+16E77U+16E57U+16E78U+16E58U+16E79U+16E59U+16E7AU+16E5AU+16E7BU+16E5BU+16E7CU+16E5CU+16E7DU+16E5DU+16E7EU+16E5EU+16E7FU+16E5FU+1E922U+1E900U+1E923U+1E901U+1E924U+1E902U+1E925U+1E903U+1E926U+1E904U+1E927U+1E905U+1E928U+1E906U+1E929U+1E907U+1E92AU+1E908U+1E92BU+1E909U+1E92CU+1E90AU+1E92DU+1E90BU+1E92EU+1E90CU+1E92FU+1E90DU+1E930U+1E90EU+1E931U+1E90FU+1E932U+1E910U+1E933U+1E911U+1E934U+1E912U+1E935U+1E913U+1E936U+1E914U+1E937U+1E915U+1E938U+1E916U+1E939U+1E917U+1E93AU+1E918U+1E93BU+1E919U+1E93CU+1E91AU+1E93DU+1E91BU+1E93EU+1E91CU+1E93FU+1E91DU+1E940U+1E91EU+1E941U+1E91FU+1E942U+1E920U+1E943U+1E921"

(* The upper case of every character beyond utf8.RuneSelf that has one *)
UpperCaseOf ==
  LET n == Len(CaseRanges) \div 14
      trim(s) == SubSeq(s, 1, Cardinality({k \in 1..7 : SubSeq(s, k, k) # " "}))
      from(r) == trim(SubSeq(CaseRanges, 14 * r - 13, 14 * r - 7))
      to(r) == trim(SubSeq(CaseRanges, 14 * r - 6, 14 * r))
      lower == [r \in 1..n |-> from(r)]
  IN [c \in {lower[r] : r \in 1..n} |-> to(CHOOSE r \in 1..n : lower[r] = c)]

(* unicode.ToUpper: the ASCII letters by their position, every other *)
(* character by the case ranges.                                     *)
ToUpperChar(c) ==
  IF PosIn(LowerCase, c) # 0 THEN UpperCase[PosIn(LowerCase, c)]
  ELSE IF c \in DOMAIN UpperCaseOf THEN UpperCaseOf[c]
  ELSE c

(* strings.ToUpper: unicode.ToUpper on every character *)
ToUpper(s) == [i \in 1..Len(s) |-> ToUpperChar(s[i])]

(* strings.HasPrefix *)
HasPrefix(s, prefix) == Len(s) >= Len(prefix) /\ Take(s, Len(prefix)) = prefix

(* The value of a digit character in strconv; 99 for a character that is none *)
DigitValue(c) ==
  IF PosIn(Digits, c) # 0 THEN PosIn(Digits, c) - 1
  ELSE IF PosIn(LowerCase, c) # 0 THEN PosIn(LowerCase, c) + 9
  ELSE IF PosIn(UpperCase, c) # 0 THEN PosIn(UpperCase, c) + 9
  ELSE 99

(* strconv works on 64-bit integers and Go's int has 64 bits; an integer is *)
(* written here as its four 16-bit words, the least significant first, a   *)
(* signed one in two's complement.                                         *)
ZeroWords == <<0, 0, 0, 0>>

(* n*base + d on the words of a uint64, and what is carried out of bit 63 *)
MulAdd(n, base, d) ==
  LET t1 == n[1] * base + d
      t2 == n[2] * base + t1 \div Word
      t3 == n[3] * base + t2 \div Word
      t4 == n[4] * base + t3 \div Word
  IN [n |-> <<t1 % Word, t2 % Word, t3 % Word, t4 % Word>>, carry |-> t4 \div Word]

(* a < b on the words of two uint64 *)
WordsLess(a, b) == \E i \in 1..4 : a[i] < b[i] /\ \A j \in (i + 1)..4 : a[j] = b[j]

(* -n on the words of an int64 *)
Negate(n) == MulAdd([i \in 1..4 |-> 65535 - n[i]], 1, 1).n

(* maxVal of ParseUint: 2^bitSize - 1 *)
MaxVal(bitSize) == [i \in 1..4 |-> IF i <= bitSize \div 16 THEN 65535 ELSE 0]

(* the digit loop of strconv.ParseUint: a character that is no digit of the *)
(* base is a syntax error wherever it stands among the digits read; the    *)
(* loop ends with a range error at the digit that takes the value past     *)
(* maxVal                                                                  *)
RECURSIVE ParseDigits(_, _, _, _, _)
ParseDigits(s, base, bitSize, i, n) ==
  IF i > Len(s) THEN [n |-> n, err |-> "nil"]
  ELSE IF DigitValue(s[i]) >= base THEN [n |-> ZeroWords, err |-> "syntax"]
  ELSE LET m == MulAdd(n, base, DigitValue(s[i]))
       IN IF m.carry # 0 \/ WordsLess(MaxVal(bitSize), m.n)
          THEN [n |-> MaxVal(bitSize), err |-> "range"]
          ELSE ParseDigits(s, base, bitSize, i + 1, m.n)

(* strconv.ParseUint(s, base, bitSize) for base 2, 10 or 16 *)
ParseUint(s, base, bitSize) ==
  IF s = <<>> THEN [n |-> ZeroWords, err |-> "syntax"]
  ELSE ParseDigits(s, base, bitSize, 1, ZeroWords)

(* val, _ := strconv.ParseInt(s, base, bitSize): 0 on a syntax error, the   *)
(* nearest value of bitSize bits when the digits' value is 2^(bitSize-1) or *)
(* more (more than that for a negative one)                                 *)
ParseInt(s, base, bitSize) ==
  LET neg == s # <<>> /\ s[1] = "-"
      body == IF s # <<>> /\ s[1] \in {"+", "-"} THEN Tail(s) ELSE s
      u == ParseUint(body, base, bitSize)
      k == bitSize \div 16
      cutoff == [i \in 1..4 |-> IF i = k THEN 32768 ELSE 0]
  IN IF s = <<>> \/ u.err = "syntax" THEN ZeroWords
     ELSE IF ~neg /\ ~WordsLess(u.n, cutoff)
          THEN [i \in 1..4 |-> IF i < k THEN 65535 ELSE IF i = k THEN 32767 ELSE 0]
     ELSE IF neg /\ WordsLess(cutoff, u.n)
          THEN [i \in 1..4 |-> IF i < k THEN 0 ELSE IF i = k THEN 32768 ELSE 65535]
     ELSE IF neg THEN Negate(u.n) ELSE u.n

(* val, _ := strconv.Atoi(s), int being 64 bits wide: its fast path (fewer *)
(* than 19 characters) and ParseInt(s, 10, 0) give the same value          *)
Atoi(s) == ParseInt(s, 10, 64)

(* uint16(v) of an int v *)
Uint16(v) == v[1]

----------------------------------------------------------------------------
(* Assembler.parseRegister *)
ParseRegister(reg) ==
  LET up == ToUpper(reg)
  IN IF HasPrefix(up, <<"R">>) THEN Uint16(ParseInt(Tail(up), 16, 32)) % 256 ELSE 0

(* Assembler.parseImmediate *)
ParseImmediate(imm) ==
  LET t == TrimSpace(imm)
  IN IF HasPrefix(t, <<"0", "X">>) \/ HasPrefix(t, <<"0", "x">>) THEN ParseInt(Drop(t, 2), 16, 32)
     ELSE IF HasPrefix(t, <<"0", "B">>) \/ HasPrefix(t, <<"0", "b">>) THEN ParseInt(Drop(t, 2), 2, 32)
     ELSE Atoi(t)

(* the Opcodes table *)
Opcodes ==
  (<<"N", "O", "P">> :> 0) @@
  (<<"A", "D", "D">> :> 1) @@
  (<<"A", "D", "D", "I">> :> 2) @@
  (<<"S", "U", "B">> :> 3) @@
  (<<"A", "N", "D">> :> 4) @@
  (<<"O", "R">> :> 5) @@
  (<<"X", "O", "R">> :> 6) @@
  (<<"N", "O", "T">> :> 7) @@
  (<<"S", "H", "L">> :> 8) @@
  (<<"S", "H", "R">> :> 9) @@
  (<<"L", "O", "A", "D">> :> 10) @@
  (<<"S", "T", "O", "R", "E">> :> 11) @@
  (<<"L", "O", "A", "D", "I">> :> 12) @@
  (<<"J", "M", "P">> :> 13) @@
  (<<"B", "E", "Q">> :> 14) @@
  (<<"B", "N", "E">> :> 15) @@
  (<<"H", "A", "L", "T">> :> 255)

ThreeRegisterOps == {<<"A", "D", "D">>, <<"S", "U", "B">>, <<"A", "N", "D">>, <<"O", "R">>, <<"X", "O", "R">>, <<"S", "H", "L">>, <<"S", "H", "R">>}
ImmediateOps == {<<"A", "D", "D", "I">>, <<"L", "O", "A", "D", "I">>}
MemoryOps == {<<"L", "O", "A", "D">>, <<"S", "T", "O", "R", "E">>}
BranchOps == {<<"B", "E", "Q">>, <<"B", "N", "E">>}
MnNOP == <<"N", "O", "P">>
MnHALT == <<"H", "A", "L", "T">>
MnNOT == <<"N", "O", "T">>
MnJMP == <<"J", "M", "P">>
MnBEQ == <<"B", "E", "Q">>
MnBNE == <<"B", "N", "E">>

EmptyLabels == [l \in {} |-> 0]

(* a.Labels[label] = a.Address: a Go map assignment, which overwrites *)
SetLabel(labels, label, address) ==
  [l \in (DOMAIN labels) \cup {label} |-> IF l = label THEN address ELSE labels[l]]

FirstPassKeeps(a) == a

(* The first three assignments of Assembler.firstPass *)
FirstPassReset(a) == [Labels |-> EmptyLabels, Instructions |-> <<>>, Address |-> 0]

(* The operands of a line whose fields are parts: nil when it has one field *)
LineOperands(parts) ==
  IF Len(parts) > 1
  THEN LET split == StrSplit(StrJoin(Tail(parts)), ",")
       IN [i \in 1..Len(split) |-> TrimSpace(split[i])]
  ELSE <<>>

(* The body of the loop of Assembler.firstPass on one line of the source *)
FirstPassLine(a, rawLine) ==
  LET semi == StrIndex(rawLine, ";")
      noComment == IF semi # 0 THEN Take(rawLine, semi - 1) ELSE rawLine
      line == TrimSpace(noComment)
      colon == StrIndex(line, ":")
      hasLabel == colon # 0
      label == IF hasLabel THEN TrimSpace(Take(line, colon - 1)) ELSE <<>>
      rest == IF hasLabel THEN TrimSpace(Drop(line, colon)) ELSE line
      labels == IF hasLabel THEN SetLabel(a.Labels, label, a.Address) ELSE a.Labels
      parts == Fields(rest)
  IN IF line = <<>> THEN a
     ELSE IF rest = <<>> THEN [a EXCEPT !.Labels = labels]
     ELSE [Labels |-> labels,
           Instructions |-> Append(a.Instructions,
                                   [Label |-> label, Opcode |-> ToUpper(parts[1]),
                                    Operands |-> LineOperands(parts), Address |-> a.Address]),
           Address |-> (a.Address + 2) % Word]

(* The loop of Assembler.firstPass over lines[lo..hi], in order: the lines *)
(* up to the middle one are processed (the test on left makes the checker  *)
(* compute them first), then the later ones from the state they leave      *)
RECURSIVE FirstPassLines(_, _, _, _)
FirstPassLines(a, lines, lo, hi) ==
  IF lo > hi THEN a
  ELSE IF lo = hi THEN FirstPassLine(a, lines[lo])
  ELSE LET mid == (lo + hi) \div 2
           left == FirstPassLines(a, lines, lo, mid)
       IN IF left.Address >= 0 THEN FirstPassLines(left, lines, mid + 1, hi) ELSE left

(* Assembler.firstPass: it returns no error *)
FirstPass(a, source) ==
  LET lines == StrSplit(source, "\n")
  IN FirstPassLines(FirstPassReset(a), lines, 1, Len(lines))

ShiftLeft16(x, n) == (x * Pow2(n)) % Word

(* uint16(int16(labelAddr-instr.Address-2) / 2): Go's / truncates toward 0 *)
LabelOffset(labelAddr, address) ==
  LET d == (labelAddr - address - 2) % Word
      sd == IF d >= 32768 THEN d - Word ELSE d
      q == IF sd >= 0 THEN sd \div 2 ELSE 0 - ((0 - sd) \div 2)
  IN q % Word

(* the offset of a BEQ or BNE: from the label when the operand names one *)
BranchOffset(labels, operand, address) ==
  IF operand \in DOMAIN labels THEN LabelOffset(labels[operand], address)
  ELSE Uint16(ParseImmediate(operand))

(* the address of a JMP: the label's when the operand names one *)
JumpAddress(labels, operand) ==
  IF operand \in DOMAIN labels THEN labels[operand]
  ELSE Uint16(ParseImmediate(operand))

(* Assembler.encodeInstruction: the word and the error; "panic" is Go's *)
(* index-out-of-range panic on instr.Operands[k]                       *)
EncodeInstruction(labels, instr) ==
  LET ops == instr.Operands
      n == Len(ops)
      opcode == Opcodes[instr.Opcode]
      ok(code) == [code |-> code, err |-> "nil"]
      panic == [code |-> 0, err |-> "panic"]
  IN IF instr.Opcode \notin DOMAIN Opcodes THEN [code |-> 0, err |-> "error"]
     ELSE IF instr.Opcode = MnNOP THEN ok(0)
     ELSE IF instr.Opcode = MnHALT THEN ok(HaltWord)
     ELSE IF instr.Opcode \in ThreeRegisterOps THEN
       IF n < 3 THEN panic
       ELSE ok(BitOr(BitOr(BitOr(ShiftLeft16(opcode, 12),
                                 ShiftLeft16(ParseRegister(ops[1]), 8)),
                           ShiftLeft16(ParseRegister(ops[2]), 4)),
                     ParseRegister(ops[3])))
     ELSE IF instr.Opcode = MnNOT THEN
       IF n < 2 THEN panic
       ELSE ok(BitOr(BitOr(ShiftLeft16(opcode, 12), ShiftLeft16(ParseRegister(ops[1]), 8)),
                     ShiftLeft16(ParseRegister(ops[2]), 4)))
     ELSE IF instr.Opcode \in ImmediateOps THEN
       IF n < 2 THEN panic
       ELSE ok(BitOr(BitOr(ShiftLeft16(opcode, 12), ShiftLeft16(ParseRegister(ops[1]), 8)),
                     Uint16(ParseImmediate(ops[2])) % 256))
     ELSE IF instr.Opcode \in MemoryOps THEN
       IF n < 3 THEN panic
       ELSE ok(BitOr(BitOr(BitOr(ShiftLeft16(opcode, 12),
                                 ShiftLeft16(ParseRegister(ops[1]), 8)),
                           ShiftLeft16(ParseRegister(ops[2]), 4)),
                     Uint16(ParseImmediate(ops[3])) % 16))
     ELSE IF instr.Opcode = MnJMP THEN
       IF n < 1 THEN panic
       ELSE ok(BitOr(ShiftLeft16(opcode, 12), BitAnd(JumpAddress(labels, ops[1]), 4095)))
     ELSE IF instr.Opcode \in BranchOps THEN
       IF n < 2 THEN panic
       ELSE ok(BitOr(BitOr(ShiftLeft16(opcode, 12), ShiftLeft16(ParseRegister(ops[1]), 8)),
                     BitAnd(BranchOffset(labels, ops[2], instr.Address), 255)))
     ELSE [code |-> 0, err |-> "error"]

(* Assembler.secondPass: the words, or nil and the first error met *)
SecondPass(labels, instructions) ==
  LET r == [i \in 1..Len(instructions) |-> EncodeInstruction(labels, instructions[i])]
      failed == {i \in 1..Len(instructions) : r[i].err # "nil"}
  IN IF failed = {} THEN [code |-> [i \in 1..Len(instructions) |-> r[i].code], err |-> "nil"]
     ELSE [code |-> <<>>, err |-> r[SetMin(failed)].err]

----------------------------------------------------------------------------
(* Disassembler *)

HexChars == <<"0", "1", "2", "3", "4", "5", "6", "7", "8", "9",
              "A", "B", "C", "D", "E", "F">>

(* fmt's %X, and %0<width>X: upper-case hex digits, zero-padded to width *)
RECURSIVE FormatHex(_, _)
FormatHex(n, width) ==
  IF width <= 1 /\ n < 16 THEN <<HexChars[n + 1]>>
  ELSE FormatHex(n \div 16, width - 1) \o <<HexChars[(n % 16) + 1]>>

RECURSIVE FormatNat(_)
FormatNat(n) ==
  IF n < 10 THEN <<Digits[n + 1]>>
  ELSE FormatNat(n \div 10) \o <<Digits[(n % 10) + 1]>>

(* fmt's %d *)
FormatInt(n) == IF n < 0 THEN <<"-">> \o FormatNat(0 - n) ELSE FormatNat(n)

(* int8(imm8) *)
Int8(imm8) == IF imm8 % 256 >= 128 THEN (imm8 % 256) - 256 ELSE imm8 % 256

(* "R%X" *)
FormatReg(r) == <<"R">> \o FormatHex(r, 1)
(* "0x%02X" and "0x%03X" *)
FormatImm(v, width) == <<"0", "x">> \o FormatHex(v, width)

CommaSpace == <<",", " ">>

(* "R%X, R%X, R%X" *)
ThreeRegisterText(rd, rs, rt) ==
  FormatReg(rd) \o CommaSpace \o FormatReg(rs) \o CommaSpace \o FormatReg(rt)

(* "R%X = R%X <sign> R%X" *)
ThreeRegisterComment(rd, rs, rt, sign) ==
  FormatReg(rd) \o <<" ", "=", " ">> \o FormatReg(rs) \o <<" ", sign, " ">> \o FormatReg(rt)

(* Disassembler.disassembleInstruction *)
DisassembleInstruction(instruction, address) ==
  LET opcode == Opcode(instruction)
      rd == FieldRd(instruction)
      rs == FieldRs(instruction)
      rt == FieldRt(instruction)
      imm8 == FieldImm8(instruction)
      addr12 == FieldAddr12(instruction)
      rec(mnemonic, operands, comment) ==
        [Address |-> address, MachineCode |-> instruction, Mnemonic |-> mnemonic,
         Operands |-> operands, Comment |-> comment]
  IN IF instruction = 0 THEN rec(MnNOP, <<>>, <<"N", "o", " ", "o", "p", "e", "r", "a", "t", "i", "o", "n">>)
     ELSE IF instruction = HaltWord THEN rec(MnHALT, <<>>, <<"S", "t", "o", "p", " ", "e", "x", "e", "c", "u", "t", "i", "o", "n">>)
     ELSE CASE opcode = 1 ->
                 rec(<<"A", "D", "D">>, ThreeRegisterText(rd, rs, rt), ThreeRegisterComment(rd, rs, rt, "+"))
            [] opcode = 2 ->
                 rec(<<"A", "D", "D", "I">>, FormatReg(rd) \o CommaSpace \o FormatImm(imm8, 2),
                     FormatReg(rd) \o <<" ", "=", " ">> \o FormatReg(rd) \o <<" ", "+", " ">>
                       \o FormatImm(imm8, 2))
            [] opcode = 3 ->
                 rec(<<"S", "U", "B">>, ThreeRegisterText(rd, rs, rt), ThreeRegisterComment(rd, rs, rt, "-"))
            [] opcode = 12 ->
                 rec(<<"L", "O", "A", "D", "I">>, FormatReg(rd) \o CommaSpace \o FormatImm(imm8, 2),
                     FormatReg(rd) \o <<" ", "=", " ">> \o FormatImm(imm8, 2))
            [] opcode = 13 ->
                 rec(MnJMP, FormatImm(addr12, 3), <<"P", "C", " ", "=", " ">> \o FormatImm(addr12, 3))
            [] opcode = 14 ->
                 rec(MnBEQ, FormatReg(rd) \o CommaSpace \o FormatInt(Int8(imm8)),
                     <<"B", "r", "a", "n", "c", "h", " ", "i", "f", " ", "z", "e", "r", "o">>)
            [] opcode = 15 ->
                 rec(MnBNE, FormatReg(rd) \o CommaSpace \o FormatInt(Int8(imm8)),
                     <<"B", "r", "a", "n", "c", "h", " ", "i", "f", " ", "n", "o", "t", " ", "z", "e", "r", "o">>)
            [] OTHER ->
                 rec(<<"U", "N", "K", "N", "O", "W", "N", "_">> \o FormatHex(opcode, 1), <<>>,
                     <<"U", "n", "k", "n", "o", "w", "n", " ", "o", "p", "c", "o", "d", "e", ":", " ", "0", "x">> \o FormatHex(opcode, 1))

(* Disassembler.Disassemble: one record per word, addresses 2 apart *)
DisassembleWords(machineCode, startAddress) ==
  [i \in 1..Len(machineCode) |->
     DisassembleInstruction(machineCode[i], (startAddress + 2 * (i - 1)) % Word)]

----------------------------------------------------------------------------
(* Inputs: the programs LoadProgram is called with *)

Enc(op, rd, rs, rt) == op * 4096 + rd * 256 + rs * 16 + rt
EncImm(op, rd, imm8) == op * 4096 + rd * 256 + imm8

Programs ==
  { <<HaltWord>>,
    \* LOADI R1,0x2A ; HALT
    <<EncImm(12, 1, 42), HaltWord>>,
    \* BEQ R0,-2 : from address 0 the branch lands on 0xFFFE
    <<EncImm(14, 0, 254)>>,
    \* LOADI R1,0xFF ; ADD R0,R1,R1 ; NOT R0,R0 ; LOAD R0,R0,1 ; LOADI R0,0x7F ; HALT
    <<EncImm(12, 1, 255), Enc(1, 0, 1, 1), Enc(7, 0, 0, 0), Enc(10, 0, 0, 1),
      EncImm(12, 0, 127), HaltWord>>,
    \* LOADI R1,0xFF ; ADDI R1,1 ; SUB R2,R0,R1 ; STORE R1,R0,3 ; HALT
    <<EncImm(12, 1, 255), EncImm(2, 1, 1), Enc(3, 2, 0, 1), Enc(11, 1, 0, 3), HaltWord>> }

StartAddrs == {0, 2, 65534}

----------------------------------------------------------------------------
(* Inputs: the sources Assemble is called with *)

\* LOADI R1, 0x2A\nHALT
SrcLoadiHalt ==
  <<"L", "O", "A", "D", "I", " ", "R", "1", ",", " ", "0", "x", "2", "A",
    "\n", "H", "A", "L", "T">>

\*     LOADI R1, 0\n    BEQ R1, skip\n    LOADI R2, 1\nskip:\n    HALT
SrcForward ==
  <<" ", " ", " ", " ", "L", "O", "A", "D", "I", " ", "R", "1", ",", " ",
    "0", "\n", " ", " ", " ", " ", "B", "E", "Q", " ", "R", "1", ",", " ",
    "s", "k", "i", "p", "\n", " ", " ", " ", " ", "L", "O", "A", "D", "I",
    " ", "R", "2", ",", " ", "1", "\n", "s", "k", "i", "p", ":", "\n", " ",
    " ", " ", " ", "H", "A", "L", "T">>

\* LOADI R1, 2\nLOADI R2, -1\nloop: ADD R1, R1, R2\nBNE R1, loop\nHALT
SrcLoop ==
  <<"L", "O", "A", "D", "I", " ", "R", "1", ",", " ", "2", "\n", "L", "O",
    "A", "D", "I", " ", "R", "2", ",", " ", "-", "1", "\n", "l", "o", "o",
    "p", ":", " ", "A", "D", "D", " ", "R", "1", ",", " ", "R", "1", ",",
    " ", "R", "2", "\n", "B", "N", "E", " ", "R", "1", ",", " ", "l", "o",
    "o", "p", "\n", "H", "A", "L", "T">>

\* LOADI RF, 1\nspin: BNE RF, spin\nHALT
SrcSpin ==
  <<"L", "O", "A", "D", "I", " ", "R", "F", ",", " ", "1", "\n", "s", "p",
    "i", "n", ":", " ", "B", "N", "E", " ", "R", "F", ",", " ", "s", "p",
    "i", "n", "\n", "H", "A", "L", "T">>

\* top: NOP\nBEQ R0, top ; again\n
SrcBeqBack ==
  <<"t", "o", "p", ":", " ", "N", "O", "P", "\n", "B", "E", "Q", " ", "R",
    "0", ",", " ", "t", "o", "p", " ", ";", " ", "a", "g", "a", "i", "n", "\n">>

\* JMP nowhere\nHALT
SrcUnknownLabel ==
  <<"J", "M", "P", " ", "n", "o", "w", "h", "e", "r", "e", "\n", "H", "A",
    "L", "T">>

\* BEQ R0, missing\nHALT
SrcUnknownBranch ==
  <<"B", "E", "Q", " ", "R", "0", ",", " ", "m", "i", "s", "s", "i", "n",
    "g", "\n", "H", "A", "L", "T">>

\* jmp end\nNOP\nend: halt
SrcJumpLabel ==
  <<"j", "m", "p", " ", "e", "n", "d", "\n", "N", "O", "P", "\n", "e", "n",
    "d", ":", " ", "h", "a", "l", "t">>

\* JMP 0x004\nNOP\nHALT
SrcJumpNumber ==
  <<"J", "M", "P", " ", "0", "x", "0", "0", "4", "\n", "N", "O", "P", "\n",
    "H", "A", "L", "T">>

\* JMP 3
\* NOP
\* HALT
SrcJumpOdd ==
  <<"J", "M", "P", " ", "3", "\n", "N", "O", "P", "\n", "H", "A", "L", "T">>

LineNop == <<"N", "O", "P", "\n">>
LineFarHead == <<"s", "t", "a", "r", "t", ":", " ", "B", "E", "Q", " ", "R", "0", ",", " ", "e", "n", "d", "\n">>
LineFarTail == <<"e", "n", "d", ":", " ", "B", "N", "E", " ", "R", "0", ",", " ", "s", "t", "a", "r", "t">>

Repeat(line, n) == [i \in 1..(n * Len(line)) |-> line[((i - 1) % Len(line)) + 1]]

\* "start: BEQ R0, end", n lines "NOP", "end: BNE R0, start": the offsets are
\* n forward and -(n + 2) backward
SrcFar(n) == LineFarHead \o Repeat(LineNop, n) \o LineFarTail

FarInRange == 126
FarOutOfRange == 128

Sources ==
  { SrcLoadiHalt,
    SrcForward,
    SrcLoop,
    SrcSpin,
    SrcBeqBack,
    SrcUnknownLabel,
    SrcUnknownBranch,
    SrcJumpLabel,
    SrcJumpNumber,
    SrcJumpOdd,
    SrcFar(FarInRange), SrcFar(FarOutOfRange) }

(* Inputs: the sources of the assemble and disassemble requests *)
\* start: NOP
\* ADD R1, R2, R3
\* ADDI R1, 0x10
\* SUB R4, R5, R6
\* AND R1, R2, R3
\* OR R7, R8, R9
\* XOR RA, RB, RC
\* NOT RD, RE
\* SHL R1, R2, R3
\* SHR R1, R2, R3
\* LOAD R1, R2, 3
\* STORE R1, R2, 3
\* LOADI RF, 0x7F
\* JMP 0x004
\* BEQ R1, start
\* BNE R1, 2
\* HALT
SrcAllMnemonics ==
  <<"s", "t", "a", "r", "t", ":", " ", "N", "O", "P", "\n", "A", "D", "D",
    " ", "R", "1", ",", " ", "R", "2", ",", " ", "R", "3", "\n", "A", "D",
    "D", "I", " ", "R", "1", ",", " ", "0", "x", "1", "0", "\n", "S", "U",
    "B", " ", "R", "4", ",", " ", "R", "5", ",", " ", "R", "6", "\n", "A",
    "N", "D", " ", "R", "1", ",", " ", "R", "2", ",", " ", "R", "3", "\n",
    "O", "R", " ", "R", "7", ",", " ", "R", "8", ",", " ", "R", "9", "\n",
    "X", "O", "R", " ", "R", "A", ",", " ", "R", "B", ",", " ", "R", "C",
    "\n", "N", "O", "T", " ", "R", "D", ",", " ", "R", "E", "\n", "S", "H",
    "L", " ", "R", "1", ",", " ", "R", "2", ",", " ", "R", "3", "\n", "S",
    "H", "R", " ", "R", "1", ",", " ", "R", "2", ",", " ", "R", "3", "\n",
    "L", "O", "A", "D", " ", "R", "1", ",", " ", "R", "2", ",", " ", "3",
    "\n", "S", "T", "O", "R", "E", " ", "R", "1", ",", " ", "R", "2", ",",
    " ", "3", "\n", "L", "O", "A", "D", "I", " ", "R", "F", ",", " ", "0",
    "x", "7", "F", "\n", "J", "M", "P", " ", "0", "x", "0", "0", "4", "\n",
    "B", "E", "Q", " ", "R", "1", ",", " ", "s", "t", "a", "r", "t", "\n",
    "B", "N", "E", " ", "R", "1", ",", " ", "2", "\n", "H", "A", "L", "T">>

\* top: ADD R1, R2, R3
\* ADDI R4, 0xFF
\* ſub R5, R6, R7     (the mnemonic begins with U+017F, whose upper case is S)
\* JMP top
\* BEQ R1, top
\* HALT
SrcArith ==
  <<"t", "o", "p", ":", " ", "A", "D", "D", " ", "R", "1", ",", " ", "R",
    "2", ",", " ", "R", "3", "\n", "A", "D", "D", "I", " ", "R", "4", ",",
    " ", "0", "x", "F", "F", "\n", "U+017F", "u", "b", " ", "R", "5", ",",
    " ", "R", "6", ",", " ", "R", "7", "\n", "J", "M", "P", " ", "t", "o", "p",
    "\n", "B", "E", "Q", " ", "R", "1", ",", " ", "t", "o", "p", "\n", "H",
    "A", "L", "T">>

\* loop: LOADI R1, 1
\* loop: HALT
\* JMP loop
SrcDupLabel ==
  <<"l", "o", "o", "p", ":", " ", "L", "O", "A", "D", "I", " ", "R", "1",
    ",", " ", "1", "\n", "l", "o", "o", "p", ":", " ", "H", "A", "L", "T",
    "\n", "J", "M", "P", " ", "l", "o", "o", "p">>

\* ADD R1
\* HALT
SrcAddOneOperand ==
  <<"A", "D", "D", " ", "R", "1", "\n", "H", "A", "L", "T">>

\* ADD R1, R2, R3, R4
\* HALT
SrcAddFourOperands ==
  <<"A", "D", "D", " ", "R", "1", ",", " ", "R", "2", ",", " ", "R", "3",
    ",", " ", "R", "4", "\n", "H", "A", "L", "T">>

\* NOP R1
\* HALT
SrcNopOperand ==
  <<"N", "O", "P", " ", "R", "1", "\n", "H", "A", "L", "T">>

\* ADD R10, R1, R2
\* HALT
SrcRegisterTen ==
  <<"A", "D", "D", " ", "R", "1", "0", ",", " ", "R", "1", ",", " ", "R",
    "2", "\n", "H", "A", "L", "T">>

\* ADDI x, 1
\* HALT
SrcNotRegister ==
  <<"A", "D", "D", "I", " ", "x", ",", " ", "1", "\n", "H", "A", "L", "T">>

\* MOV R1, R2
\* HALT
SrcUnknownMnemonic ==
  <<"M", "O", "V", " ", "R", "1", ",", " ", "R", "2", "\n", "H", "A", "L",
    "T">>

\* 12: LOADI R1, 12     (the label 12 is read as a label by BEQ and JMP only)
\* BEQ R1, 12
\* JMP 12
\* HALT
SrcNumeralLabel ==
  <<"1", "2", ":", " ", "L", "O", "A", "D", "I", " ", "R", "1", ",", " ",
    "1", "2", "\n", "B", "E", "Q", " ", "R", "1", ",", " ", "1", "2", "\n",
    "J", "M", "P", " ", "1", "2", "\n", "H", "A", "L", "T">>

AsmSources ==
  { SrcLoadiHalt, SrcForward, SrcLoop, SrcSpin, SrcBeqBack, SrcJumpLabel,
    SrcJumpNumber, SrcUnknownLabel, SrcAllMnemonics, SrcArith, SrcDupLabel,
    SrcAddOneOperand, SrcAddFourOperands, SrcNopOperand, SrcRegisterTen,
    SrcNotRegister, SrcUnknownMnemonic, SrcNumeralLabel }

----------------------------------------------------------------------------
(* NewVM *)

NoCall == [op |-> "new", err |-> "nil", instr |-> 0, pc |-> 0, sr |-> 0]

NewVMState ==
  /\ Registers = ZeroRegisters
  /\ PC = 0
  /\ SP = InitSP
  /\ LR = 0
  /\ SR = 0
  /\ Memory = EmptyMemory
  /\ Halted = FALSE
  /\ CycleCount = 0

(* NewAssembler *)
NewAssemblerState ==
  /\ Labels = EmptyLabels
  /\ Instructions = <<>>
  /\ Address = 0

Init ==
  /\ NewVMState
  /\ last = NoCall
  /\ nLoads = 0
  /\ nResets = 0
  /\ nCalls = 0
  /\ NewAssemblerState
  /\ asmOut = [code |-> <<>>, err |-> "none"]
  /\ asmSrc = <<>>
  /\ disasm = <<>>
  /\ history = <<>>
  /\ runI = 0
  /\ runN = 0
  /\ runPc = "idle"

(* LoadProgram's index-out-of-range panic unwinds its caller, and the VM is *)
(* that caller's (simulateHandler's, whose panic net/http recovers): no     *)
(* further call is made on a VM whose load panicked                         *)
Running == last.err # "panic"

(* VM.LoadProgram(program, startAddr) *)
LoadProgram(program, startAddr) ==
  /\ Running
  /\ nLoads + nCalls < MaxLoads
  /\ LET r == LoadWords(Memory, program, startAddr)
     IN /\ Memory' = r.mem
        /\ last' = [op |-> "load", err |-> r.err, instr |-> 0, pc |-> PC, sr |-> SR]
  /\ nLoads' = nLoads + 1
  /\ UNCHANGED <<Registers, PC, SP, LR, SR, Halted, CycleCount, nResets, nCalls>>
  /\ UNCHANGED asmVars
  /\ UNCHANGED hostVars

StepRefusedNever(halted) == FALSE

(* if vm.Halted { return error } *)
StepRefused(halted) == halted

NextCycleSkipped(c) == c

(* vm.CycleCount++ *)
NextCycle(c) == c + 1

(* VM.Step, on the VM's fields and the record of the call *)
StepVM ==
  /\ Running
  /\ IF StepRefused(Halted)
     THEN /\ last' = [op |-> "step", err |-> "halted", instr |-> 0, pc |-> PC, sr |-> SR]
          /\ UNCHANGED <<Registers, PC, SP, LR, SR, Memory, Halted, CycleCount>>
     ELSE /\ CycleCount < MaxCycles
          /\ LET f == Fetch(Memory, PC)
                 r == Execute(f.instruction, Registers, f.pc, SR, Memory)
             IN /\ Registers' = r.Registers
                /\ PC' = r.PC
                /\ SR' = r.SR
                /\ Memory' = r.Memory
                /\ Halted' = (Halted \/ r.Halted)
                /\ last' = [op |-> "step", err |-> "nil", instr |-> f.instruction,
                            pc |-> PC, sr |-> SR]
          /\ CycleCount' = NextCycle(CycleCount)
          /\ UNCHANGED <<SP, LR>>

(* VM.Step, called on its own *)
Step ==
  /\ StepVM
  /\ UNCHANGED <<nLoads, nResets, nCalls>>
  /\ UNCHANGED asmVars
  /\ UNCHANGED hostVars

(* VM.Reset *)
Reset ==
  /\ Running
  /\ nResets < MaxResets
  /\ Registers' = ZeroRegisters
  /\ PC' = 0
  /\ SP' = InitSP
  /\ LR' = 0
  /\ SR' = 0
  /\ Halted' = FALSE
  /\ CycleCount' = 0
  /\ last' = [op |-> "reset", err |-> "nil", instr |-> 0, pc |-> PC, sr |-> SR]
  /\ nResets' = nResets + 1
  /\ UNCHANGED <<Memory, nLoads, nCalls>>
  /\ UNCHANGED asmVars
  /\ UNCHANGED hostVars

(* VM.Fetch, called on its own: no halted check, no cycle counted *)
FetchCall ==
  /\ Running
  /\ nLoads + nCalls < MaxLoads
  /\ LET f == Fetch(Memory, PC)
     IN /\ PC' = f.pc
        /\ last' = [op |-> "fetch", err |-> "nil", instr |-> f.instruction, pc |-> PC, sr |-> SR]
  /\ nCalls' = nCalls + 1
  /\ UNCHANGED <<Registers, SP, LR, SR, Memory, Halted, CycleCount, nLoads, nResets>>
  /\ UNCHANGED asmVars
  /\ UNCHANGED hostVars

(* VM.UpdateFlags(result), called on its own *)
UpdateFlagsCall(result) ==
  /\ Running
  /\ nLoads + nCalls < MaxLoads
  /\ SR' = UpdateFlags(SR, result)
  /\ last' = [op |-> "flags", err |-> "nil", instr |-> 0, pc |-> PC, sr |-> SR]
  /\ nCalls' = nCalls + 1
  /\ UNCHANGED <<Registers, PC, SP, LR, Memory, Halted, CycleCount, nLoads, nResets>>
  /\ UNCHANGED asmVars
  /\ UNCHANGED hostVars

(* VM.UpdateFlagsWithCarry(result), called on its own; result is a uint32 *)
UpdateFlagsWithCarryCall(result) ==
  /\ Running
  /\ nLoads + nCalls < MaxLoads
  /\ SR' = UpdateFlagsWithCarry(SR, result)
  /\ last' = [op |-> "flags", err |-> "nil", instr |-> 0, pc |-> PC, sr |-> SR]
  /\ nCalls' = nCalls + 1
  /\ UNCHANGED <<Registers, PC, SP, LR, Memory, Halted, CycleCount, nLoads, nResets>>
  /\ UNCHANGED asmVars
  /\ UNCHANGED hostVars

Load == \E program \in Programs, startAddr \in StartAddrs : LoadProgram(program, startAddr)

(* UpdateFlags and UpdateFlagsWithCarry are called with a zero, a negative *)
(* and a carried result                                                    *)
Next ==
  \/ Load
  \/ Step
  \/ Reset
  \/ FetchCall
  \/ \E result \in {0, 32768} : UpdateFlagsCall(result)
  \/ \E result \in {65536, 98304} : UpdateFlagsWithCarryCall(result)

Spec == Init /\ [][Next]_vars

----------------------------------------------------------------------------
(* Assembler.Assemble(source), on the one Assembler instance.  The assembler *)
(* and the VM share no state, so a call made between two Steps leads to the *)
(* same states as the call made before the first of them: only the calls    *)
(* made before the VM steps are explored.                                   *)
Assemble(source) ==
  /\ last.op # "step"
  /\ LET a == FirstPass([Labels |-> Labels, Instructions |-> Instructions,
                         Address |-> Address], source)
         r == SecondPass(a.Labels, a.Instructions)
     IN /\ Labels' = a.Labels
        /\ Instructions' = a.Instructions
        /\ Address' = a.Address
        /\ asmOut' = r
  /\ asmSrc' = source
  /\ UNCHANGED <<Registers, PC, SP, LR, SR, Memory, Halted, CycleCount, last, nLoads, nResets, nCalls>>
  /\ UNCHANGED hostVars

(* simulateHandler: vm := NewVM(); vm.LoadProgram(machineCode, 0), with the *)
(* words the last Assemble returned                                         *)
LoadAssembled ==
  /\ asmOut.err = "nil"
  /\ LET r == LoadWords(EmptyMemory, asmOut.code, 0)
     IN /\ Memory' = r.mem
        /\ last' = [op |-> "load", err |-> r.err, instr |-> 0, pc |-> 0, sr |-> 0]
  /\ Registers' = ZeroRegisters
  /\ PC' = 0
  /\ SP' = InitSP
  /\ LR' = 0
  /\ SR' = 0
  /\ Halted' = FALSE
  /\ CycleCount' = 0
  /\ UNCHANGED <<nLoads, nResets, nCalls>>
  /\ UNCHANGED asmVars
  /\ UNCHANGED hostVars

AssembleAny == \E source \in Sources : Assemble(source)

NextAsm == AssembleAny \/ LoadAssembled \/ Step

SpecAsm == Init /\ [][NextAsm]_vars

----------------------------------------------------------------------------
(* assembleHandler and disassembleHandler *)

(* assembleHandler: a panic of Assemble is recovered by net/http, which *)
(* drops the request and serves the next one                           *)
AssembleRequest == \E source \in AsmSources : Assemble(source)

(* disassembleHandler: NewDisassembler().Disassemble(machineCode, 0), with *)
(* the words the last Assemble returned                                    *)
Disassemble ==
  /\ asmOut.err = "nil"
  /\ disasm' = DisassembleWords(asmOut.code, 0)
  /\ UNCHANGED <<Registers, PC, SP, LR, SR, Memory, Halted, CycleCount, last, nLoads, nResets, nCalls>>
  /\ UNCHANGED asmVars
  /\ UNCHANGED <<history, runI, runN, runPc>>

NextDis == AssembleRequest \/ Disassemble

SpecDis == Init /\ [][NextDis]_vars

----------------------------------------------------------------------------
(* simulateHandler: the run of a program on a new VM *)

MaxRunCycles == 6
DefaultMaxCycles == 1000

(* VM.GetState *)
GetState(regs, pc, sp, lr, sr, cycles, halted) ==
  [Registers |-> regs, PC |-> pc, SP |-> sp, LR |-> lr, SR |-> sr,
   CycleCount |-> cycles, Halted |-> halted]

(* Inputs: req.MachineCode and req.MaxCycles *)
RunPrograms == Programs \cup { <<EncImm(13, 0, 0)>>, <<EncImm(12, 1, 1), EncImm(15, 1, 254)>> }
RunCycles == 1..MaxRunCycles

(* the decoded request, the default of MaxCycles, NewVM, LoadProgram at 0 *)
(* and the empty history; a panic of LoadProgram ends the request, which  *)
(* net/http drops before it serves the next one                           *)
RunStart(machineCode, maxCycles) ==
  /\ runPc # "loop"
  /\ LET r == LoadWords(EmptyMemory, machineCode, 0)
     IN /\ Memory' = r.mem
        /\ last' = [op |-> "load", err |-> r.err, instr |-> 0, pc |-> 0, sr |-> 0]
        /\ runPc' = IF r.err = "panic" THEN "done" ELSE "loop"
  /\ Registers' = ZeroRegisters
  /\ PC' = 0
  /\ SP' = InitSP
  /\ LR' = 0
  /\ SR' = 0
  /\ Halted' = FALSE
  /\ CycleCount' = 0
  /\ history' = <<>>
  /\ runI' = 0
  /\ runN' = IF maxCycles = 0 THEN DefaultMaxCycles ELSE maxCycles
  /\ UNCHANGED <<nLoads, nResets, nCalls, disasm>>
  /\ UNCHANGED asmVars

LoopConditionIgnoresHalt(i, n, halted) == i < n

(* i < req.MaxCycles && !vm.Halted *)
LoopCondition(i, n, halted) == i < n /\ ~halted

AppendUnlessHalted(h, snapshot) == IF snapshot.Halted THEN h ELSE Append(h, snapshot)

(* history = append(history, vm.GetState()) *)
AppendSnapshot(h, snapshot) == Append(h, snapshot)

(* one iteration of the loop: Step, break on an error, else the snapshot *)
RunStep ==
  /\ runPc = "loop"
  /\ LoopCondition(runI, runN, Halted)
  /\ StepVM
  /\ IF last'.err # "nil"
     THEN /\ runPc' = "done"
          /\ UNCHANGED <<history, runI>>
     ELSE /\ history' = AppendSnapshot(history,
                          GetState(Registers', PC', SP', LR', SR', CycleCount', Halted'))
          /\ runI' = runI + 1
          /\ runPc' = "loop"
  /\ UNCHANGED <<nLoads, nResets, nCalls, disasm, runN>>
  /\ UNCHANGED asmVars

(* the loop condition is false: the response is written *)
RunEnd ==
  /\ runPc = "loop"
  /\ ~LoopCondition(runI, runN, Halted)
  /\ runPc' = "done"
  /\ last' = [op |-> "respond", err |-> "nil", instr |-> 0, pc |-> PC, sr |-> SR]
  /\ UNCHANGED <<Registers, PC, SP, LR, SR, Memory, Halted, CycleCount, nLoads, nResets, nCalls>>
  /\ UNCHANGED asmVars
  /\ UNCHANGED <<disasm, history, runI, runN>>

RunRequest == \E machineCode \in RunPrograms, maxCycles \in RunCycles :
                RunStart(machineCode, maxCycles)

NextRun == RunRequest \/ RunStep \/ RunEnd

SpecRun == Init /\ [][NextRun]_vars

(* the handler's goroutine keeps running: an iteration or the end of the *)
(* loop that can be taken is taken                                       *)
FairSpecRun == SpecRun /\ WF_vars(RunStep) /\ WF_vars(RunEnd)

----------------------------------------------------------------------------
(* The ALU runs: one program that loads R1, R2 and R3 from its data words,   *)
(* sets the flags with ADD R0,R3,R3, executes one instruction and halts.     *)

AluValues == {0, 1, 32767, 32768, 65535}
FlagSeeds == {0, 1, 16384, 32768, 32769, 65535}

AluInstructions ==
  { Enc(op, rd, 1, 2) : op \in {1} \cup (3..9), rd \in {0, 4} }
    \cup { EncImm(2, rd, imm) : rd \in {0, 1}, imm \in {0, 1, 128, 255} }

\* LOAD R1,R0,8 ; LOAD R2,R0,9 ; LOAD R3,R0,10 ; ADD R0,R3,R3 ; <instr> ; HALT
AluProgram(instr, a, b, c) ==
  <<Enc(10, 1, 0, 8), Enc(10, 2, 0, 9), Enc(10, 3, 0, 10), Enc(1, 0, 3, 3),
    instr, HaltWord, 0, 0, a, b, c>>

LoadAlu ==
  /\ last.op = "new"
  /\ \E instr \in AluInstructions, a \in AluValues, b \in AluValues, c \in FlagSeeds :
       LoadProgram(AluProgram(instr, a, b, c), 0)

NextALU == LoadAlu \/ Step

SpecALU == Init /\ [][NextALU]_vars

----------------------------------------------------------------------------
(* The memory runs: one program that loads R1 and R2 from its data words,  *)
(* stores R2 at R1 + 2*off, loads R3 from there and halts.                 *)

MemBases == {0, 4, 6, 8, 32767, 32768, 65506, 65534, 65535}
MemOffsets == {0, 1, 15}
MemData == {0, 43981, 65535}

\* LOAD R1,R0,6 ; LOAD R2,R0,7 ; STORE R2,R1,off ; LOAD R3,R1,off ; HALT
MemProgram(base, data, off) ==
  <<Enc(10, 1, 0, 6), Enc(10, 2, 0, 7), Enc(11, 2, 1, off), Enc(10, 3, 1, off),
    HaltWord, 0, base, data>>

LoadMem ==
  /\ last.op = "new"
  /\ \E base \in MemBases, data \in MemData, off \in MemOffsets :
       LoadProgram(MemProgram(base, data, off), 0)

NextMem == LoadMem \/ Step

SpecMem == Init /\ [][NextMem]_vars

----------------------------------------------------------------------------
(* The word a Step of a running VM is about to fetch *)
NextWord == MemRead(Memory, PC \div 2)

StepRuns == ~Halted /\ last'.op = "step"

FlagZ(result) == IF result % Word = 0 THEN 1 ELSE 0
FlagN(result) == IF result % Word >= 32768 THEN 2 ELSE 0
FlagC(result) == IF result > 65535 THEN 4 ELSE 0

(* C1: in every reachable state, whatever LoadProgram, Step and Reset calls *)
(* led to it, register R0 holds 0; in particular after each Step.           *)
C1_R0AlwaysZero == Registers[0] = 0

(* a Step has just executed LOADI R0,0x7F and R0 is 0 *)
C1_Witness ==
  /\ last.op = "step" /\ last.err = "nil"
  /\ last.instr = EncImm(12, 0, 127)
  /\ Registers[0] = 0

(* C2: from a halted VM, every call but Reset leaves it halted, and a Step   *)
(* returns the halted error and changes no register, PC, SP, LR, SR, memory  *)
(* word or the cycle counter; LoadProgram leaves the halted flag set.        *)
C2_HaltedUntilReset ==
  [][Halted =>
       /\ (last'.op # "reset" => Halted')
       /\ (last'.op = "step" => last'.err = "halted" /\ UNCHANGED vmVars)]_vars

(* a Step was called on a VM that a HALT had halted; two loads were made *)
C2_Witness ==
  /\ Halted
  /\ last.op = "step" /\ last.err = "halted"
  /\ nLoads = 2
  /\ CycleCount > 0

(* C3: a Step of a running VM that fetches 0xFFFF sets halted, leaves PC at *)
(* the pre-fetch PC plus 2 modulo 2^16 and changes no register, SR, SP, LR  *)
(* or memory word.                                                          *)
C3_HaltFrame ==
  [][(StepRuns /\ NextWord = HaltWord) =>
       /\ Halted'
       /\ PC' = (PC + 2) % Word
       /\ UNCHANGED <<Registers, SR, SP, LR, Memory>>]_vars

(* HALT was fetched at 0xFFFE: the VM is halted and PC wrapped to 0 *)
C3_Witness ==
  /\ Halted
  /\ last.op = "step" /\ last.instr = HaltWord
  /\ last.pc = 65534
  /\ PC = 0

(* C4: a Step that returns no error adds exactly 1 to the cycle counter,    *)
(* HALT included; a Step that returns an error leaves it; only Reset ever   *)
(* lowers it.                                                               *)
C4_CycleCount ==
  [][/\ (last'.op = "step" /\ last'.err = "nil" => CycleCount' = CycleCount + 1)
     /\ (last'.op = "step" /\ last'.err # "nil" => CycleCount' = CycleCount)
     /\ (last'.op # "reset" => CycleCount' >= CycleCount)]_vars

(* the second Step executed HALT and was counted *)
C4_Witness ==
  /\ last.op = "step" /\ last.err = "nil" /\ last.instr = HaltWord
  /\ CycleCount = 2
  /\ Registers[1] = 42

(* C5: after Reset the VM equals a new VM, memory included (every word 0). *)
C5_ResetRestoresNewVM == last.op = "reset" => NewVMState

(* C6, as claimed: a Step executing SUB, AND, OR, XOR, NOT, SHL or SHR      *)
(* leaves the Carry bit of SR as it was.                                    *)
C6_CarryUntouched ==
  [][(StepRuns /\ Opcode(NextWord) \in 3..9) => BitAnd(SR', 4) = BitAnd(SR, 4)]_vars

(* What such a Step does: UpdateFlags clears Z, N and Carry and sets Z and *)
(* N from the 16-bit result, so SR is Z + 2N afterwards and Carry is 0    *)
(* whatever it was.                                                       *)
LogicClearsCarry ==
  [][(StepRuns /\ Opcode(NextWord) \in 3..9) =>
       LET result == AluResult(Opcode(NextWord), Registers[FieldRs(NextWord)],
                               Registers[FieldRt(NextWord)])
       IN /\ SR' = FlagZ(result) + FlagN(result)
          /\ FieldRd(NextWord) # 0 => Registers'[FieldRd(NextWord)] = result]_vars

(* SUB R4,R1,R2 ran with Carry set before it and left SR = N alone *)
CarryClearedBySub ==
  /\ last.op = "step" /\ last.instr = Enc(3, 4, 1, 2)
  /\ BitAnd(last.sr, 4) = 4
  /\ SR = 2

(* C7: after ADD rd,rs,rt or ADDI rd,imm8 (imm8 zero-extended), for rd = R0 *)
(* too, SR is exactly Z (sum mod 2^16 = 0), N (bit 15 of the sum mod 2^16)  *)
(* and C (unbounded sum above 0xFFFF), every other bit 0.                   *)
C7_AddFlags ==
  [][(StepRuns /\ Opcode(NextWord) \in {1, 2}) =>
       LET sum == IF Opcode(NextWord) = 1
                  THEN Registers[FieldRs(NextWord)] + Registers[FieldRt(NextWord)]
                  ELSE Registers[FieldRd(NextWord)] + FieldImm8(NextWord)
       IN /\ SR' = FlagZ(sum) + FlagN(sum) + FlagC(sum)
          /\ FieldRd(NextWord) # 0 => Registers'[FieldRd(NextWord)] = sum % Word]_vars

(* ADDI R1,0x01 ran on R1 = 0xFFFF: R1 = 0, Z and C set, N clear *)
C7_Witness ==
  /\ last.op = "step" /\ last.instr = EncImm(2, 1, 1)
  /\ Registers[1] = 0
  /\ SR = 5

----------------------------------------------------------------------------
(* The assembled program is in memory from byte address 0 *)
CodeLoaded ==
  /\ asmOut.err = "nil"
  /\ \A k \in 1..Len(asmOut.code) : MemRead(Memory, k - 1) = asmOut.code[k]

Assembled == asmOut.err # "none"

(* A token that names one of R0..RF, and the register it names *)
IsRegisterName(tok) ==
  Len(tok) = 2 /\ ToUpperChar(tok[1]) = "R" /\ DigitValue(tok[2]) < 16
RegisterNamed(tok) == DigitValue(tok[2])

(* An identifier: a letter or "_", then letters, digits and "_" *)
IsLetter(c) == PosIn(LowerCase, c) # 0 \/ PosIn(UpperCase, c) # 0 \/ c = "_"
IsIdentifier(tok) ==
  /\ tok # <<>>
  /\ IsLetter(tok[1])
  /\ \A i \in 1..Len(tok) : IsLetter(tok[i]) \/ PosIn(Digits, tok[i]) # 0

(* A BEQ or BNE on a register R0..RF whose target is a label of the source, *)
(* and the offset (target - (address + 2)) / 2 that the label asks for      *)
IsLabelBranch(instr) ==
  /\ instr.Opcode \in BranchOps
  /\ Len(instr.Operands) = 2
  /\ IsRegisterName(instr.Operands[1])
  /\ instr.Operands[2] \in DOMAIN Labels
WantedOffset(instr) ==
  LET q == LabelOffset(Labels[instr.Operands[2]], instr.Address)
  IN IF q >= 32768 THEN q - Word ELSE q
OffsetFits(instr) == WantedOffset(instr) \in (0 - 128)..127

BranchTaken(instr) ==
  IF instr.Opcode = MnBEQ
  THEN Registers[RegisterNamed(instr.Operands[1])] = 0
  ELSE Registers[RegisterNamed(instr.Operands[1])] # 0

(* a Step of the loaded program executes Instructions[k], a label branch *)
(* whose offset fits                                                     *)
StepsBranch(k) ==
  /\ PC = Instructions[k].Address
  /\ StepRuns
  /\ CodeLoaded
  /\ IsLabelBranch(Instructions[k])
  /\ OffsetFits(Instructions[k])

BranchLands(k) ==
  PC' = IF BranchTaken(Instructions[k])
        THEN Labels[Instructions[k].Operands[2]]
        ELSE Instructions[k].Address + 2

(* C8, as claimed: in a program assembled and loaded at byte address 0, a  *)
(* Step executing a BEQ or BNE that names a label whose offset fits in     *)
(* -128..127 leaves PC at the label when the condition is true and at the  *)
(* branch's address plus 2 when it is false.                               *)
C8_BranchAgreement ==
  [][\A k \in 1..Len(Instructions) : StepsBranch(k) => BranchLands(k)]_vars

(* The same, for every branch but the one the assembler encodes as 0xFFFF *)
BranchAgreementButHaltWord ==
  [][\A k \in 1..Len(Instructions) :
       (StepsBranch(k) /\ asmOut.code[k] # HaltWord) => BranchLands(k)]_vars

(* C9, as claimed: assembling a source with a BEQ or BNE whose label lies  *)
(* outside the signed 8-bit range returns an error and no code words.      *)
C9_FarBranchRejected ==
  (Assembled /\ \E k \in 1..Len(Instructions) :
                  IsLabelBranch(Instructions[k]) /\ ~OffsetFits(Instructions[k]))
    => (asmOut.err = "error" /\ asmOut.code = <<>>)

(* The target operand of a JMP, BEQ or BNE with the operands it requires *)
HasTarget(instr) ==
  \/ instr.Opcode = MnJMP /\ Len(instr.Operands) = 1
  \/ instr.Opcode \in BranchOps /\ Len(instr.Operands) = 2
TargetOperand(instr) == instr.Operands[Len(instr.Operands)]

(* C10, as claimed: assembling a source in which a JMP, BEQ or BNE names   *)
(* an identifier that no line defines as a label returns an error and no   *)
(* code words.                                                             *)
C10_UnknownLabelRejected ==
  (Assembled /\ \E k \in 1..Len(Instructions) :
                  /\ HasTarget(Instructions[k])
                  /\ IsIdentifier(TargetOperand(Instructions[k]))
                  /\ TargetOperand(Instructions[k]) \notin DOMAIN Labels)
    => (asmOut.err = "error" /\ asmOut.code = <<>>)

----------------------------------------------------------------------------
(* The label definitions of a source, read as the first pass reads a line: *)
(* the comment is cut, and the text before the first ":" is the label      *)
LineText(rawLine) ==
  TrimSpace(IF StrIndex(rawLine, ";") # 0
            THEN Take(rawLine, StrIndex(rawLine, ";") - 1) ELSE rawLine)
LineHasLabel(rawLine) == StrIndex(LineText(rawLine), ":") # 0
LineLabel(rawLine) ==
  TrimSpace(Take(LineText(rawLine), StrIndex(LineText(rawLine), ":") - 1))

DefinedTwice(source) ==
  LET lines == StrSplit(source, "\n")
  IN \E i \in 1..Len(lines), j \in 1..Len(lines) :
       /\ i < j
       /\ LineHasLabel(lines[i]) /\ LineHasLabel(lines[j])
       /\ LineLabel(lines[i]) = LineLabel(lines[j])

(* C11, as claimed: assembling a source that defines the same label on two *)
(* lines returns an error; a successful assembly defined each label once.  *)
C11_DuplicateLabelRejected ==
  (Assembled /\ DefinedTwice(asmSrc)) => asmOut.err = "error"

(* C12, as claimed: a code word 0xFFFF in the assembler's output comes from *)
(* an instruction whose mnemonic is HALT.                                   *)
C12_HaltWordOnlyFromHalt ==
  asmOut.err = "nil" =>
    \A k \in 1..Len(asmOut.code) :
      asmOut.code[k] = HaltWord => Instructions[k].Opcode = MnHALT

----------------------------------------------------------------------------
(* The operands encodeInstruction reads for a mnemonic, and those of them *)
(* it passes to parseRegister                                             *)
OperandsRead(opcode) ==
  IF opcode \in ThreeRegisterOps \cup MemoryOps THEN 3
  ELSE IF opcode = MnNOT \/ opcode \in ImmediateOps \cup BranchOps THEN 2
  ELSE IF opcode = MnJMP THEN 1
  ELSE 0

RegisterPositions(opcode) ==
  IF opcode \in ThreeRegisterOps THEN {1, 2, 3}
  ELSE IF opcode = MnNOT \/ opcode \in MemoryOps THEN {1, 2}
  ELSE IF opcode \in ImmediateOps \cup BranchOps THEN {1}
  ELSE {}

(* A numeric literal: decimal with an optional sign, 0x hex or 0b binary *)
AllDigits(tok, base) == tok # <<>> /\ \A i \in 1..Len(tok) : DigitValue(tok[i]) < base
IsNumeral(tok) ==
  IF HasPrefix(tok, <<"0", "x">>) \/ HasPrefix(tok, <<"0", "X">>) THEN AllDigits(Drop(tok, 2), 16)
  ELSE IF HasPrefix(tok, <<"0", "b">>) \/ HasPrefix(tok, <<"0", "B">>) THEN AllDigits(Drop(tok, 2), 2)
  ELSE IF HasPrefix(tok, <<"-">>) \/ HasPrefix(tok, <<"+">>) THEN AllDigits(Tail(tok), 10)
  ELSE AllDigits(tok, 10)

(* int(n): the words of a Go int that holds n *)
IntWords(n) ==
  <<n % Word, (n \div Word) % Word, IF n < 0 THEN 65535 ELSE 0, IF n < 0 THEN 65535 ELSE 0>>

NumeralIn(tok, lo, hi) ==
  IsNumeral(tok) /\ \E n \in lo..hi : ParseImmediate(tok) = IntWords(n)

(* An instruction of the assembled source with a known mnemonic, the       *)
(* operands it requires, registers R0..RF, immediates within the field and *)
(* a branch target within the signed 8-bit range                           *)
WellFormed(instr) ==
  LET ops == instr.Operands
  IN /\ instr.Opcode \in DOMAIN Opcodes
     /\ Len(ops) = OperandsRead(instr.Opcode)
     /\ \A i \in RegisterPositions(instr.Opcode) : IsRegisterName(ops[i])
     /\ instr.Opcode \in ImmediateOps => NumeralIn(ops[2], 0, 255)
     /\ instr.Opcode \in MemoryOps => NumeralIn(ops[3], 0, 15)
     /\ instr.Opcode = MnJMP =>
          IF ops[1] \in DOMAIN Labels THEN Labels[ops[1]] < 4096
          ELSE NumeralIn(ops[1], 0, 4095)
     /\ instr.Opcode \in BranchOps =>
          IF ops[2] \in DOMAIN Labels THEN OffsetFits(instr)
          ELSE NumeralIn(ops[2], 0 - 128, 127)

(* The operands of a disassembled record, split as the assembler splits *)
(* the operand text of a line                                           *)
TextOperands(text) ==
  IF text = <<>> THEN <<>>
  ELSE LET split == StrSplit(text, ",")
       IN [i \in 1..Len(split) |-> TrimSpace(split[i])]

(* The value of operand i of a source instruction, as encodeInstruction    *)
(* reads it: the register's number; for the target of JMP the label's      *)
(* address and for the target of BEQ, BNE the label's offset, when the     *)
(* token is a label; in every other place, ADDI, LOADI, LOAD and STORE     *)
(* included, the value parseImmediate gives the token                      *)
SourceValue(instr, i) ==
  LET tok == instr.Operands[i]
  IN IF i \in RegisterPositions(instr.Opcode) THEN IntWords(RegisterNamed(tok))
     ELSE IF instr.Opcode = MnJMP /\ tok \in DOMAIN Labels
          THEN IntWords(Labels[tok])
     ELSE IF instr.Opcode \in BranchOps /\ tok \in DOMAIN Labels
          THEN IntWords(WantedOffset(instr))
     ELSE ParseImmediate(tok)

(* The value of operand i of a disassembled record *)
TextValue(mnemonic, toks, i) ==
  IF i \in RegisterPositions(mnemonic) /\ IsRegisterName(toks[i])
  THEN IntWords(RegisterNamed(toks[i]))
  ELSE IF IsNumeral(toks[i]) THEN ParseImmediate(toks[i])
  ELSE <<>>

SameInstruction(instr, rec) ==
  LET toks == TextOperands(rec.Operands)
  IN /\ rec.Mnemonic = instr.Opcode
     /\ Len(toks) = Len(instr.Operands)
     /\ \A i \in 1..Len(toks) : TextValue(rec.Mnemonic, toks, i) = SourceValue(instr, i)

(* disasm is the disassembly of the words the last Assemble returned *)
Disassembled ==
  /\ asmOut.err = "nil"
  /\ asmOut.code # <<>>
  /\ Len(disasm) = Len(asmOut.code)
  /\ \A k \in 1..Len(disasm) : disasm[k].MachineCode = asmOut.code[k]

(* C13, as claimed: disassembling the words assembled from well-formed     *)
(* instructions yields one record per instruction, each with the source    *)
(* instruction's mnemonic and operand values.                              *)
C13_RoundTrip ==
  (Disassembled /\ \A k \in 1..Len(Instructions) : WellFormed(Instructions[k]))
    => /\ Len(disasm) = Len(Instructions)
       /\ \A k \in 1..Len(Instructions) : SameInstruction(Instructions[k], disasm[k])

(* The mnemonics disassembleInstruction has a case for *)
DecodedOps ==
  {MnNOP, MnHALT, MnJMP, MnBEQ, MnBNE, <<"A", "D", "D">>, <<"A", "D", "D", "I">>, <<"S", "U", "B">>, <<"L", "O", "A", "D", "I">>}

(* The same for the instructions the disassembler has a case for, but the *)
(* BNE that is encoded as 0xFFFF                                          *)
RoundTripOfDecodedOps ==
  Disassembled =>
    /\ Len(disasm) = Len(Instructions)
    /\ \A k \in 1..Len(Instructions) :
         (/\ WellFormed(Instructions[k])
          /\ Instructions[k].Opcode \in DecodedOps
          /\ (asmOut.code[k] = HaltWord => Instructions[k].Opcode = MnHALT))
           => SameInstruction(Instructions[k], disasm[k])

----------------------------------------------------------------------------
(* C14, as claimed: assembling a source with an instruction whose operand  *)
(* count is not the one its mnemonic requires returns an error value and   *)
(* no code words (an abort of the call is not a returned error).           *)
C14_ArityRejected ==
  (Assembled /\ \E k \in 1..Len(Instructions) :
                  /\ Instructions[k].Opcode \in DOMAIN Opcodes
                  /\ Len(Instructions[k].Operands) # OperandsRead(Instructions[k].Opcode))
    => (asmOut.err = "error" /\ asmOut.code = <<>>)

(* C15, as claimed: assembling a source with an instruction that has the   *)
(* operands it requires, one of which stands where a register is read and  *)
(* does not name R0..RF, returns an error.                                 *)
C15_RegisterValidated ==
  (Assembled /\ \E k \in 1..Len(Instructions) :
                  /\ Instructions[k].Opcode \in DOMAIN Opcodes
                  /\ Len(Instructions[k].Operands) = OperandsRead(Instructions[k].Opcode)
                  /\ \E i \in RegisterPositions(Instructions[k].Opcode) :
                       ~IsRegisterName(Instructions[k].Operands[i]))
    => asmOut.err = "error"

----------------------------------------------------------------------------
(* C16, as claimed: no snapshot of the history has halted = true. *)
C16_NoHaltSnapshot == \A k \in 1..Len(history) : ~history[k].Halted

(* C16, amended: the run appends a snapshot after every successful step,   *)
(* the one that executes HALT included: once the VM of a run has halted,   *)
(* the last snapshot of the history, and only that one, has halted = true. *)
C16_HaltSnapshotAppended ==
  runPc # "idle" =>
    /\ Halted => history # <<>>
    /\ \A k \in 1..Len(history) : history[k].Halted = (Halted /\ k = Len(history))

(* the run of LOADI R1,0x2A ; HALT is over: two snapshots, the second halted *)
C16_Witness ==
  /\ runPc = "done"
  /\ Halted
  /\ Len(history) = 2
  /\ history[1].Registers[1] = 42 /\ ~history[1].Halted
  /\ history[2].Halted /\ history[2].PC = 4

(* C17: a run with max_cycles = N >= 1 on a new VM ends; it makes no Step *)
(* on a halted VM (no Step of the run returns the halted error); its       *)
(* history has as many snapshots as the VM has cycles, at most N, and the  *)
(* k-th snapshot has cycle count k.                                        *)
C17_RunBounded ==
  /\ [](runPc # "idle" =>
          /\ Len(history) = CycleCount
          /\ Len(history) <= runN
          /\ \A k \in 1..Len(history) : history[k].CycleCount = k)
  /\ [](last.err # "halted")
  /\ (runPc = "loop" ~> runPc = "done")

(* a run of three cycles ended by the cycle limit, the VM not halted *)
C17_Witness ==
  /\ runPc = "done"
  /\ ~Halted
  /\ runN = 3
  /\ Len(history) = 3
  /\ history[3].CycleCount = 3

----------------------------------------------------------------------------
(* The memory words LoadProgram(program, startAddr) is to set *)
LoadedIndices(program, startAddr) ==
  { startAddr \div 2 + (i - 1) : i \in 1..Len(program) }

(* C18, as claimed: LoadProgram(words, start) with start even returns      *)
(* normally, also when start/2 plus the number of words passes 32768; it   *)
(* sets word start/2 + i to words[i] and leaves every other memory word,   *)
(* the registers, PC, SP, LR, SR, the halted flag and the cycle counter.   *)
C18_LoadProgramFrame ==
  [][\A program \in Programs, startAddr \in StartAddrs :
       LoadProgram(program, startAddr) =>
         /\ last'.err = "nil"
         /\ \A i \in 1..Len(program) :
              startAddr \div 2 + (i - 1) < MemWords =>
                MemRead(Memory', startAddr \div 2 + (i - 1)) = program[i]
         /\ \A j \in (DOMAIN Memory \cup DOMAIN Memory') \ LoadedIndices(program, startAddr) :
              MemRead(Memory', j) = MemRead(Memory, j)
         /\ UNCHANGED <<Registers, PC, SP, LR, SR, Halted, CycleCount>>]_vars

(* The same for the loads that stay within the 32768 words *)
LoadProgramFrameWithinMemory ==
  [][\A program \in Programs, startAddr \in StartAddrs :
       (LoadProgram(program, startAddr) /\ startAddr \div 2 + Len(program) <= MemWords) =>
         /\ last'.err = "nil"
         /\ \A i \in 1..Len(program) :
              MemRead(Memory', startAddr \div 2 + (i - 1)) = program[i]
         /\ \A j \in (DOMAIN Memory \cup DOMAIN Memory') \ LoadedIndices(program, startAddr) :
              MemRead(Memory', j) = MemRead(Memory, j)
         /\ UNCHANGED <<Registers, PC, SP, LR, SR, Halted, CycleCount>>]_vars

----------------------------------------------------------------------------
(* Assemble(source) on a new Assembler: the outcome and the label table *)
AssembleOnNew(source) ==
  LET a == FirstPass([Labels |-> EmptyLabels, Instructions |-> <<>>, Address |-> 0], source)
  IN [out |-> SecondPass(a.Labels, a.Instructions), Labels |-> a.Labels]

(* C19: whatever the Assembler instance assembled before, Assemble(s)      *)
(* returns the code words, the error outcome and the label table that      *)
(* Assemble(s) returns on a new instance.                                  *)
C19_NoCrossInvocationState ==
  Assembled =>
    /\ asmOut = AssembleOnNew(asmSrc).out
    /\ Labels = AssembleOnNew(asmSrc).Labels

(* the instance assembled the source with label spin, whose disassembly is *)
(* still held, and then the source with label skip: the table holds skip   *)
(* alone                                                                   *)
C19_Witness ==
  /\ asmSrc = SrcForward
  /\ asmOut.err = "nil"
  /\ DOMAIN Labels = {<<"s", "k", "i", "p">>}
  /\ Len(disasm) = 3
  /\ disasm[1].MachineCode = 52993

----------------------------------------------------------------------------
(* The word index a LOAD or STORE about to be fetched addresses *)
AddressedIndex(word) == ((Registers[FieldRs(word)] + 2 * FieldOffset(word)) % Word) \div 2

(* C20: LOAD and STORE address word ((R[rs] + 2*offset4) mod 2^16) div 2,  *)
(* always below 32768: a STORE writes R[rd] there and changes no other     *)
(* word, register or SR bit; a LOAD with rd # R0 reads that word; a LOAD   *)
(* rx,rs,off with rx # R0 right after a STORE rd,rs,off reads the stored   *)
(* value.                                                                  *)
C20_LoadStoreAddressing ==
  [][/\ (StepRuns /\ Opcode(NextWord) \in {10, 11}) => AddressedIndex(NextWord) < MemWords
     /\ (StepRuns /\ Opcode(NextWord) = 11) =>
          /\ MemRead(Memory', AddressedIndex(NextWord)) = Registers[FieldRd(NextWord)]
          /\ \A j \in (DOMAIN Memory \cup DOMAIN Memory') \ {AddressedIndex(NextWord)} :
               MemRead(Memory', j) = MemRead(Memory, j)
          /\ UNCHANGED <<Registers, SR>>
     /\ (StepRuns /\ Opcode(NextWord) = 10 /\ FieldRd(NextWord) # 0) =>
          Registers'[FieldRd(NextWord)] = MemRead(Memory, AddressedIndex(NextWord))
     /\ (/\ StepRuns /\ Opcode(NextWord) = 10 /\ FieldRd(NextWord) # 0
         /\ last.op = "step" /\ last.err = "nil" /\ Opcode(last.instr) = 11
         /\ FieldRs(last.instr) = FieldRs(NextWord)
         /\ FieldOffset(last.instr) = FieldOffset(NextWord)) =>
          Registers'[FieldRd(NextWord)] = Registers[FieldRd(last.instr)]]_vars

(* LOAD R3,R1,15 ran after STORE R2,R1,15 with R1 = 0xFFFF: the address    *)
(* wrapped to word 14, which holds the stored 0xABCD, and so does R3       *)
C20_Witness ==
  /\ last.op = "step" /\ last.instr = Enc(10, 3, 1, 15)
  /\ Registers[1] = 65535
  /\ Registers[2] = 43981
  /\ MemRead(Memory, 14) = 43981
  /\ Registers[3] = 43981

----------------------------------------------------------------------------
(* C21, as claimed: a program the assembler accepts, loaded at byte        *)
(* address 0 on a new VM and stepped, never leaves PC odd.                 *)
C21_PCEven == PC % 2 = 0

(* A Step from an even PC leaves PC even, but the JMP whose 12-bit address *)
(* is odd                                                                  *)
PCStaysEvenButOddJump ==
  [][(StepRuns /\ PC % 2 = 0
        /\ ~(Opcode(NextWord) = 13 /\ FieldAddr12(NextWord) % 2 = 1))
       => PC' % 2 = 0]_vars

====
